---- MODULE Spec2Model ----
(***************************************************************************)
(* Model of retro's analytic track/cascade hypothesis (hypo_fast.py: Track, *)
(* Hypo, inner_loop) and of the table-lookup likelihood kernel             *)
(* (tables/pexp_5d.py: pexp_5d).                                           *)
(*                                                                         *)
(* Arithmetic is exact.  Lengths are integers in metres and times are     *)
(* integers in ns; the speed of light in ice, 0.2998 m/ns, is 1/3 m/ns.    *)
(* Angles live on the twelve points of the unit circle whose sine and      *)
(* cosine are multiples of 1/5 (0, 3/5, 4/5, 1): an angle is its index     *)
(* 0..11 in increasing order, 12 stands for 2*pi, so that comparing        *)
(* indices is comparing angles and sin/cos/tan are exact table lookups.    *)
(* IEEE values that are not numbers are the records Inf, NegInf and NaN.   *)
(***************************************************************************)
EXTENDS Integers, Sequences, FiniteSets, TLC

VARIABLES
    hypo,          \* Hypo.params, Hypo.bin_edges: fixed at construction / set_binning
    track,         \* Track.origin, t0, x0, y0, z0: rewritten by set_origin
    out,           \* what the last compute_matrices left on the Hypo object
    first,         \* hit coordinate -> the outcome of the first call with it
    calls,         \* the hit coordinates of the compute_matrices calls so far
    il,            \* inner_loop called on its own: its arguments and result
    px,            \* pexp_5d: the generated function, its arguments and result
    ev,            \* two evaluations of one Hypo that run interleaved
    qy             \* one function called on its own: its arguments and result

hvars == <<hypo, track, out, first, calls>>
vars == <<hypo, track, out, first, calls, il, px, ev, qy>>

----------------------------------------------------------------------------
(* Numbers *)

Abs(a) == IF a < 0 THEN -a ELSE a
Max2(a, b) == IF a >= b THEN a ELSE b
Min2(a, b) == IF a <= b THEN a ELSE b

\* a / b for integers, b # 0; the model's inputs keep every such quotient whole
Quot(a, b) == IF b < 0 THEN (-a) \div (-b) ELSE a \div b
Divides(b, a) == b # 0 /\ a = b * Quot(a, b)

\* the largest r in lo..hi with r * r <= n, by bisection
RECURSIVE isqrt(_, _, _)
isqrt(n, lo, hi) ==
    IF lo >= hi THEN lo
    ELSE LET mid == (lo + hi + 1) \div 2
         IN  IF mid <= n \div mid THEN isqrt(n, mid, hi) ELSE isqrt(n, lo, mid - 1)

\* np.sqrt on the perfect squares the model's geometry produces
Sqrt(n) == CHOOSE r \in {isqrt(n, 0, n)} : r * r = n

\* IEEE specials and finite values; a finite value is [k |-> "fin", v |-> n]
Fin(n) == [k |-> "fin", v |-> n]
Inf == [k |-> "inf", v |-> 0]
NegInf == [k |-> "-inf", v |-> 0]
NaN == [k |-> "nan", v |-> 0]
IsFin(a) == a.k = "fin"

\* a < b, a <= b on IEEE values: every comparison with NaN is false
XLt(a, b) ==
    /\ a.k # "nan" /\ b.k # "nan"
    /\ \/ a.k = "-inf" /\ b.k # "-inf"
       \/ a.k = "fin" /\ b.k = "inf"
       \/ a.k = "fin" /\ b.k = "fin" /\ a.v < b.v
XLe(a, b) ==
    /\ a.k # "nan" /\ b.k # "nan"
    /\ (XLt(a, b) \/ a = b)

\* Python's max(a, b, c) / min(a, b, c) on numbers without NaN
XMax2(a, b) == IF XLt(a, b) THEN b ELSE a
XMin2(a, b) == IF XLt(b, a) THEN b ELSE a

\* sorted([a, b])
Sorted2(a, b) == IF XLt(b, a) THEN <<b, a>> ELSE <<a, b>>

----------------------------------------------------------------------------
(* Angles *)

PI == 6
PI_BY_TWO == 3
TWO_PI == 12

\* 5*cos and 5*sin of the angle with index a (12 = 2*pi wraps to 0)
Cos5(a) == <<5, 4, 3, 0, -3, -4, -5, -4, -3, 0, 3, 4>>[(a % 12) + 1]
Sin5(a) == <<0, 3, 4, 5, 4, 3, 0, -3, -4, -5, -4, -3>>[(a % 12) + 1]

\* np.arctan2(y, x), folded into [0, 2*pi) as Hypo.cphi does
ArcTan2(y, x) ==
    IF x = 0 /\ y = 0 THEN 0
    ELSE CHOOSE a \in 0..11 :
        /\ x * Sin5(a) = y * Cos5(a)
        /\ x * Cos5(a) + y * Sin5(a) > 0

\* np.arccos(z / r) for r > 0
ArcCos(z, r) == CHOOSE a \in 0..PI : r * Cos5(a) = 5 * z

----------------------------------------------------------------------------
(* Track *)

\* 1 / SPEED_OF_LIGHT_M_PER_NS: the track advances one metre in 3 ns
NS_PER_M == 3
TRACK_M_PER_GEV == 4

\* Track.__init__: the pre-calculated quantities (sines and cosines times 5)
length(p) == p.energy * TRACK_M_PER_GEV
dt(p) == length(p) * NS_PER_M
sintheta(p) == Sin5(p.zenith)
costheta(p) == Cos5(p.zenith)
sinphi(p) == Sin5(p.azimuth)
cosphi(p) == Cos5(p.azimuth)

\* set_origin that moves the origin in space but keeps the old relative time
set_origin_keeps_t0(p, tr, coord) ==
    IF coord = tr.origin THEN tr
    ELSE [origin |-> coord,
          t0 |-> tr.t0, x0 |-> p.x - coord.x,
          y0 |-> p.y - coord.y, z0 |-> p.z - coord.z]

\* Track.set_origin: the track state after set_origin(coord)
set_origin(p, tr, coord) ==
    IF coord = tr.origin THEN tr
    ELSE [origin |-> coord,
          t0 |-> p.t - coord.t, x0 |-> p.x - coord.x,
          y0 |-> p.y - coord.y, z0 |-> p.z - coord.z]

\* the assertion of Track.point
point_ok(p, tr, t) == tr.t0 <= t /\ t <= tr.t0 + dt(p)

\* Track.point: (x, y, z) at time t
point(p, tr, t) ==
    LET dr == Quot(t - tr.t0, NS_PER_M)
    IN  <<tr.x0 + Quot(dr * sintheta(p) * cosphi(p), 25),
          tr.y0 + Quot(dr * sintheta(p) * sinphi(p), 25),
          tr.z0 + Quot(dr * costheta(p), 5)>>

\* extent with an overlap test that rejects intervals that only touch
extent_strict(p, tr, t_low, t_high) ==
    IF tr.t0 + dt(p) > t_low /\ t_high > tr.t0
    THEN <<Max2(t_low, tr.t0), Min2(t_high, tr.t0 + dt(p))>>
    ELSE <<>>

\* Track.extent: <<>> stands for None
extent(p, tr, t_low, t_high) ==
    IF tr.t0 + dt(p) >= t_low /\ t_high >= tr.t0
    THEN <<Max2(t_low, tr.t0), Min2(t_high, tr.t0 + dt(p))>>
    ELSE <<>>

\* Track.tb: the whole difference is divided by the speed, t0 included
tb(p, tr) ==
    Quot((25 * tr.t0 - (tr.x0 * sintheta(p) * cosphi(p)
                        + tr.y0 * sintheta(p) * sinphi(p)
                        + 5 * tr.z0 * costheta(p))) * NS_PER_M, 25)

\* Track.ts: an IEEE value, since the quotient may have a zero denominator
ts(p, tr) ==
    IF (tr.x0 = 0 /\ tr.y0 = 0 /\ tr.z0 = 0) \/ p.zenith = 0 \/ p.zenith = PI
    THEN Fin(tr.t0)
    ELSE
      LET h == tr.x0 * cosphi(p) + tr.y0 * sinphi(p)
          num == - 25 * costheta(p) * (tr.x0 * tr.x0 + tr.y0 * tr.y0)
                 + 5 * sintheta(p) * tr.z0 * h
          den == sintheta(p) * costheta(p) * h
                 - 5 * tr.z0 * sintheta(p) * sintheta(p)
      IN  IF den = 0
          THEN (IF num = 0 THEN NaN ELSE IF num > 0 THEN Inf ELSE NegInf)
          ELSE Fin(tr.t0 + Quot(num * NS_PER_M, den))

\* Track.rho_of_t
rho_of_t(p, tr, t) ==
    IF t < tr.t0 \/ t > tr.t0 + dt(p) THEN -1
    ELSE Quot(t - tr.t0, NS_PER_M)

\* Track.rho_of_phi: numerator (times 5) and denominator (times 125)
rho_of_phi_num(tr, phi) == Sin5(phi) * tr.x0 - Cos5(phi) * tr.y0
rho_of_phi_den(p, phi) ==
    Cos5(phi) * sinphi(p) * sintheta(p) - Sin5(phi) * cosphi(p) * sintheta(p)

\* Track.rho_of_phi.  np.sin(np.pi) is 1.2e-16 and np.sin(2 * np.pi) is
\* -2.4e-16, not 0: where the exact denominator is zero at phi = pi or 2 pi,
\* the quotient is -x0 / (cosphi * sintheta) when y0 is 0 and of the order of
\* 1e16 (here: infinite), with the sign of -y0 * cosphi * sintheta, when not.
rho_of_phi(p, tr, phi) ==
    IF rho_of_phi_den(p, phi) # 0
    THEN Fin(Quot(25 * rho_of_phi_num(tr, phi), rho_of_phi_den(p, phi)))
    ELSE IF phi \in {PI, TWO_PI} /\ cosphi(p) * sintheta(p) # 0
    THEN (IF tr.y0 = 0 THEN Fin(Quot(- 25 * tr.x0, cosphi(p) * sintheta(p)))
          ELSE IF tr.y0 * cosphi(p) * sintheta(p) > 0 THEN NegInf ELSE Inf)
    ELSE IF rho_of_phi_num(tr, phi) = 0 THEN NaN
    ELSE IF rho_of_phi_num(tr, phi) > 0 THEN Inf ELSE NegInf

\* Track.get_A: 25 * A, A the square root of S (0 when S < 0)
get_A(p, tr, R) ==
    LET st == sintheta(p)
        ct == costheta(p)
        sp == sinphi(p)
        cp == cosphi(p)
        S == 625 * R * R
             + tr.x0 * tr.x0 * (cp * cp * st * st - 625)
             + tr.y0 * tr.y0 * (sp * sp * st * st - 625)
             + 25 * tr.z0 * tr.z0 * (ct * ct - 25)
             + 2 * tr.x0 * tr.y0 * sp * st * st * cp
             + 10 * tr.x0 * tr.z0 * cp * st * ct
             + 10 * tr.y0 * tr.z0 * sp * st * ct
    IN  IF S < 0 THEN 0 ELSE Sqrt(S)

\* the projection of the start point on the direction, times 25
proj25(p, tr) ==
    tr.x0 * sintheta(p) * cosphi(p) + tr.y0 * sinphi(p) * sintheta(p)
    + 5 * tr.z0 * costheta(p)

\* Track.rho_of_r_pos, Track.rho_of_r_neg
rho_of_r_pos(p, tr, R) == Quot(get_A(p, tr, R) - proj25(p, tr), 25)
rho_of_r_neg(p, tr, R) == Quot(- get_A(p, tr, R) - proj25(p, tr), 25)

\* Track.get_M and the two roots of rho(theta).  tan(T)**2 is the fraction
\* tn / td; with every term multiplied by 25 * td the root is (N + sgn * M) / D.
\* T = pi/2 (td = 0; np.tan gives 1.6e16) is the limit of the same formula.
\* np.tan(np.pi) is -1.2e-16, not 0: at T = pi a vertical track does not take
\* the d == 0 exit, and the quotient is -z0/costheta when the sensor is on
\* the track's line and of the order of 1e16 (here: infinite) when it is not.
rho_of_theta(p, tr, T, sgn) ==
    LET st == sintheta(p)
        ct == costheta(p)
        sp == sinphi(p)
        cp == cosphi(p)
        cT == Cos5(T)
        tn == Sin5(T) * Sin5(T)
        td == cT * cT
        h == tr.x0 * cp + tr.y0 * sp
        P == st * st * (tr.x0 * sp - tr.y0 * cp) * (tr.x0 * sp - tr.y0 * cp)
        Q == 25 * (tr.x0 * tr.x0 + tr.y0 * tr.y0) * ct * ct
             + 25 * tr.z0 * tr.z0 * st * st
             - 10 * tr.z0 * st * ct * h
        W == tn * Q - td * P
        M == IF W < 0 THEN 0 ELSE Sqrt(W) * Abs(cT)
        N == st * h * td - 5 * tr.z0 * ct * tn
        D == ct * ct * tn - st * st * td
    IN  IF T = PI /\ st = 0
        THEN (IF Q = 0 THEN Fin(Quot(- 5 * tr.z0, ct))
              ELSE IF sgn > 0 THEN Inf ELSE NegInf)
        ELSE IF D = 0 THEN Inf
        ELSE Fin(Quot(N + sgn * M, D))

rho_of_theta_neg(p, tr, T) == rho_of_theta(p, tr, T, 1)
rho_of_theta_pos(p, tr, T) == rho_of_theta(p, tr, T, -1)

----------------------------------------------------------------------------
(* Hypo: coordinate transforms and bin correlators *)

\* Hypo.cr, Hypo.cphi, Hypo.ctheta of a point <<x, y, z>>
cr(pt) == Sqrt(pt[1] * pt[1] + pt[2] * pt[2] + pt[3] * pt[3])
cphi(pt) == ArcTan2(pt[2], pt[1])
ctheta(pt) ==
    IF pt[1] = 0 /\ pt[2] = 0 /\ pt[3] = 0 THEN 0
    ELSE ArcCos(pt[3], cr(pt))

\* the "no overlap" pair [-1, -1]
Sentinel == <<Fin(-1), Fin(-1)>>

\* Hypo.correlate_theta: one interval per bin; t is the pair of polar angles
\* at the two ends of the branch, rho_extent the window's pair of rho values
correlate_theta(p, tr, bin_edges, t, rho_extent) ==
    [i \in 1..(Len(bin_edges) - 1) |->
        LET b == <<bin_edges[i], bin_edges[i + 1]>>
        IN  IF t[1] = t[2] /\ b[1] <= t[1] /\ t[1] <= b[2]
            THEN <<Fin(rho_extent[1]), Fin(rho_extent[2])>>
            ELSE IF b[1] <= t[2] /\ t[1] <= b[2] /\ t[1] < t[2]
            THEN LET val_high == Min2(b[2], t[2])
                     val_low == Max2(b[1], t[1])
                 IN  IF b[1] < PI_BY_TWO
                     THEN Sorted2(rho_of_theta_pos(p, tr, val_low),
                                  rho_of_theta_pos(p, tr, val_high))
                     ELSE Sorted2(rho_of_theta_neg(p, tr, val_low),
                                  rho_of_theta_neg(p, tr, val_high))
            ELSE IF b[1] <= t[1] /\ t[2] <= b[2] /\ t[2] < t[1]
            THEN LET val_high == Min2(b[2], t[1])
                     val_low == Max2(b[1], t[2])
                 IN  IF b[1] < PI_BY_TWO
                     THEN Sorted2(rho_of_theta_neg(p, tr, val_low),
                                  rho_of_theta_neg(p, tr, val_high))
                     ELSE Sorted2(rho_of_theta_pos(p, tr, val_low),
                                  rho_of_theta_pos(p, tr, val_high))
            ELSE Sentinel]

\* Hypo.correlate_phi
correlate_phi(p, tr, bin_edges, t, rho_extent) ==
    [i \in 1..(Len(bin_edges) - 1) |->
        LET b == <<bin_edges[i], bin_edges[i + 1]>>
        IN  IF t[1] = t[2] /\ b[1] <= t[1] /\ t[1] < b[2]
            THEN <<Fin(rho_extent[1]), Fin(rho_extent[2])>>
            ELSE IF t[1] <= t[2] /\ b[1] <= t[2] /\ t[1] < b[2]
            THEN Sorted2(rho_of_phi(p, tr, Max2(b[1], t[1])),
                         rho_of_phi(p, tr, Min2(b[2], t[2])))
            ELSE IF t[2] < t[1]
            THEN IF b[2] >= 0 /\ t[2] >= b[1]
                 THEN Sorted2(rho_of_phi(p, tr, Max2(b[1], 0)),
                              rho_of_phi(p, tr, Min2(b[2], t[2])))
                 ELSE IF TWO_PI > b[1] /\ b[2] >= t[1]
                 THEN Sorted2(rho_of_phi(p, tr, Max2(b[1], t[1])),
                              rho_of_phi(p, tr, Min2(b[2], TWO_PI)))
                 ELSE IF b[1] <= t[2] /\ t[1] <= t[2]
                 THEN Sorted2(rho_of_phi(p, tr, Max2(b[1], t[1])),
                              rho_of_phi(p, tr, Min2(b[2], t[2])))
                 ELSE Sentinel
            ELSE Sentinel]

\* Hypo.correlate_r: t is the pair of radii of the branch, pos its flag
correlate_r(p, tr, bin_edges, t, pos) ==
    [i \in 1..(Len(bin_edges) - 1) |->
        LET b == <<bin_edges[i], bin_edges[i + 1]>>
        IN  IF b[1] <= t[2] /\ t[1] <= b[2]
            THEN LET val_high == Min2(b[2], t[2])
                     val_low == Max2(b[1], t[1])
                 IN  IF (val_low >= val_high /\ ~pos) \/ (val_low <= val_high /\ pos)
                     THEN Sorted2(Fin(rho_of_r_neg(p, tr, val_low)),
                                  Fin(rho_of_r_neg(p, tr, val_high)))
                     ELSE Sorted2(Fin(rho_of_r_pos(p, tr, val_low)),
                                  Fin(rho_of_r_pos(p, tr, val_high)))
            ELSE Sentinel]

----------------------------------------------------------------------------
(* Sparse accumulator and inner_loop *)

\* Sparse(default=0): a function whose domain is the set of cells written
EmptySparse == [c \in {} |-> 0]
SparseGet(z, c) == IF c \in DOMAIN z THEN z[c] ELSE 0
SparseSet(z, c, v) == [d \in (DOMAIN z) \cup {c} |-> IF d = c THEN v ELSE z[d]]

\* the test that makes inner_loop skip an interval
is_skipped(iv) == XLt(iv[1], Fin(0)) /\ XLt(iv[2], Fin(0))

\* the body with "if A < B" in the place of "if A <= B"
deposit_strict(z, k, j, m, i, r, theta, phi, ppm) ==
    LET A == XMax2(XMax2(r[1], theta[1]), phi[1])
        B == XMin2(XMin2(r[2], theta[2]), phi[2])
        c == <<k, j - 1, m - 1, i - 1>>
    IN  IF XLt(A, B)
        THEN SparseSet(z, c, SparseGet(z, c) + (B.v - A.v) * ppm)
        ELSE z

\* the body shared by the four innermost loops of inner_loop
deposit(z, k, j, m, i, r, theta, phi, photons_per_meter) ==
    LET A == XMax2(XMax2(r[1], theta[1]), phi[1])
        B == XMin2(XMin2(r[2], theta[2]), phi[2])
        c == <<k, j - 1, m - 1, i - 1>>
    IN  IF XLe(A, B)
        THEN SparseSet(z, c, SparseGet(z, c) + (B.v - A.v) * photons_per_meter)
        ELSE z

\* for j in range(r_inter.shape[0]), from j on
RECURSIVE r_loop(_, _, _, _, _, _, _, _, _)
r_loop(z, k, j, m, i, r_inter, theta, phi, ppm) ==
    IF j > Len(r_inter) THEN z
    ELSE r_loop(IF is_skipped(r_inter[j]) THEN z
                ELSE deposit(z, k, j, m, i, r_inter[j], theta, phi, ppm),
                k, j + 1, m, i, r_inter, theta, phi, ppm)

\* for m in range(theta_inter.shape[0]), from m on: r_inter_neg, then r_inter_pos
RECURSIVE theta_loop(_, _, _, _, _, _, _, _, _)
theta_loop(z, k, m, i, theta_inter, r_inter_neg, r_inter_pos, phi, ppm) ==
    IF m > Len(theta_inter) THEN z
    ELSE theta_loop(
           IF is_skipped(theta_inter[m]) THEN z
           ELSE r_loop(r_loop(z, k, 1, m, i, r_inter_neg, theta_inter[m], phi, ppm),
                       k, 1, m, i, r_inter_pos, theta_inter[m], phi, ppm),
           k, m + 1, i, theta_inter, r_inter_neg, r_inter_pos, phi, ppm)

\* for i in range(phi_inter.shape[0]), from i on: theta_inter_neg, then theta_inter_pos
RECURSIVE phi_loop(_, _, _, _, _, _, _, _, _)
phi_loop(z, k, i, phi_inter, theta_inter_neg, theta_inter_pos, r_inter_neg, r_inter_pos, ppm) ==
    IF i > Len(phi_inter) THEN z
    ELSE phi_loop(
           IF is_skipped(phi_inter[i]) THEN z
           ELSE theta_loop(
                  theta_loop(z, k, 1, i, theta_inter_neg, r_inter_neg, r_inter_pos,
                             phi_inter[i], ppm),
                  k, 1, i, theta_inter_pos, r_inter_neg, r_inter_pos,
                  phi_inter[i], ppm),
           k, i + 1, phi_inter, theta_inter_neg, theta_inter_pos,
           r_inter_neg, r_inter_pos, ppm)

inner_loop(z, k, phi_inter, theta_inter_neg, theta_inter_pos, r_inter_neg, r_inter_pos, photons_per_meter) ==
    phi_loop(z, k, 1, phi_inter, theta_inter_neg, theta_inter_pos,
             r_inter_neg, r_inter_pos, photons_per_meter)

----------------------------------------------------------------------------
(* Hypo.compute_matrices *)

\* Hypo.__init__: photons per metre of track and per GeV of cascade (rounded)
photons_per_meter == 2451
photons_per_gev_cascade == 12805
cascade_photons(p) == p.cascade_energy * photons_per_gev_cascade

\* Hypo.get_bin: the bin's index from 0, or -1 for None
get_bin(val, bin_edges) ==
    LET hits == {k \in 0..(Len(bin_edges) - 2) :
                    bin_edges[k + 1] <= val /\ val < bin_edges[k + 2]}
    IN  IF hits = {} THEN -1
        ELSE CHOOSE k \in hits : \A h \in hits : k <= h

\* the two locals that compute_matrices binds only under a condition
has_r_inflection_point_unguarded(p, tr) == TRUE
has_r_inflection_point(p, tr) ==
    tb(p, tr) >= tr.t0 /\ tb(p, tr) < tr.t0 + dt(p)
r_inflection_point(p, tr) == cr(point(p, tr, tb(p, tr)))
has_theta_inflection_point(p, tr) ==
    XLe(Fin(tr.t0), ts(p, tr)) /\ XLt(ts(p, tr), Fin(tr.t0 + dt(p)))
theta_inflection_point(p, tr) == ctheta(point(p, tr, ts(p, tr).v))

\* sorted([a, b]) on plain numbers
sorted(a, b) == IF b < a THEN <<b, a>> ELSE <<a, b>>

\* track_r_extent_neg and track_r_extent_pos of one time window: the radii
\* of the track's points ext0 and ext1 at its ends, split at the radius of
\* the closest approach when tb_ is inside the window
r_extents(p, tr, t_extent, ext0, ext1, tb_) ==
    [neg |-> IF tb_ <= t_extent[1] THEN sorted(cr(ext0), cr(ext1))
             ELSE IF tb_ > t_extent[2] THEN <<-1, -1>>
             ELSE sorted(r_inflection_point(p, tr), cr(ext1)),
     pos |-> IF tb_ <= t_extent[1] THEN <<-1, -1>>
             ELSE IF tb_ > t_extent[2] THEN sorted(cr(ext0), cr(ext1))
             ELSE sorted(cr(ext0), r_inflection_point(p, tr))]

\* track_theta_extent_neg and track_theta_extent_pos of one time window
theta_extents(p, tr, t_extent, ext0, ext1, ts_) ==
    [neg |-> IF XLe(ts_, Fin(t_extent[1])) THEN <<ctheta(ext0), ctheta(ext1)>>
             ELSE IF XLe(Fin(t_extent[2]), ts_) THEN <<-1, -1>>
             ELSE <<ctheta(ext0), theta_inflection_point(p, tr)>>,
     pos |-> IF XLe(ts_, Fin(t_extent[1])) THEN <<-1, -1>>
             ELSE IF XLe(Fin(t_extent[2]), ts_) THEN <<ctheta(ext0), ctheta(ext1)>>
             ELSE <<theta_inflection_point(p, tr), ctheta(ext1)>>]

\* track_phi_extent of one time window: the two azimuths in increasing
\* order, the larger one first when they are more than pi apart
phi_extent(phis) ==
    IF Abs(phis[2] - phis[1]) > PI THEN <<phis[2], phis[1]>> ELSE phis

\* the part of one pass that follows the extent test: t_extent is the
\* window, ext0 and ext1 the track's points at its ends, tb and ts the two
\* extremum times.  The result is the accumulator and the error raised, ""
\* for none.
time_window(p, e, tr, k, z, t_extent, ext0, ext1, tb_, ts_) ==
    LET rho_extent == <<rho_of_t(p, tr, t_extent[1]), rho_of_t(p, tr, t_extent[2])>>
        r_mid == ~(tb_ <= t_extent[1]) /\ ~(tb_ > t_extent[2])
        theta_mid == ~XLe(ts_, Fin(t_extent[1])) /\ ~XLe(Fin(t_extent[2]), ts_)
    IN  IF (r_mid /\ ~has_r_inflection_point(p, tr))
           \/ (theta_mid /\ ~has_theta_inflection_point(p, tr))
        THEN [err |-> "UnboundLocalError", z |-> z]
        ELSE
          [err |-> "",
           z |-> inner_loop(
                   z, k,
                   correlate_phi(p, tr, e.phi,
                                 phi_extent(sorted(cphi(ext0), cphi(ext1))), rho_extent),
                   correlate_theta(p, tr, e.theta,
                                   theta_extents(p, tr, t_extent, ext0, ext1, ts_).neg,
                                   rho_extent),
                   correlate_theta(p, tr, e.theta,
                                   theta_extents(p, tr, t_extent, ext0, ext1, ts_).pos,
                                   rho_extent),
                   correlate_r(p, tr, e.r,
                               r_extents(p, tr, t_extent, ext0, ext1, tb_).neg, FALSE),
                   correlate_r(p, tr, e.r,
                               r_extents(p, tr, t_extent, ext0, ext1, tb_).pos, TRUE),
                   photons_per_meter)]

\* one pass of "for k in range(len(self.bin_edges.t) - 1)"; k counts from 0
time_bin(p, e, tr, k, z, t_extent) ==
    IF t_extent = <<>> THEN [err |-> "", z |-> z]
    ELSE time_window(p, e, tr, k, z, t_extent, point(p, tr, t_extent[1]),
                     point(p, tr, t_extent[2]), tb(p, tr), ts(p, tr))

\* the loop over the time bins, from bin k on; it stops at the first error
RECURSIVE time_loop(_, _, _, _, _)
RECURSIVE time_loop_next(_, _, _, _, _)
time_loop_next(p, e, tr, k, step) ==
    IF step.err # "" THEN step ELSE time_loop(p, e, tr, k + 1, step.z)
time_loop(p, e, tr, k, z) ==
    IF k > Len(e.t) - 2 THEN [err |-> "", z |-> z]
    ELSE time_loop_next(p, e, tr, k,
                        time_bin(p, e, tr, k, z,
                                 extent(p, tr, e.t[k + 1], e.t[k + 2])))

\* "add angles": the azimuthal offset of a cell, times 2 (bin centres are
\* half-way between two angle indices)
delta_phi2(p, e, c) ==
    LET phi2 == e.phi[c[4] + 1] + e.phi[c[4] + 2]
        delta2 == Abs(phi2 - 2 * p.azimuth)
    IN  IF delta2 <= 2 * PI THEN delta2 ELSE 2 * TWO_PI - delta2

\* the cell of the cascade, a component being -1 when get_bin found none
cascade_cell(e, tr) ==
    LET pt0 == <<tr.x0, tr.y0, tr.z0>>
    IN  <<get_bin(tr.t0, e.t), get_bin(cr(pt0), e.r),
          get_bin(ctheta(pt0), e.theta), get_bin(cphi(pt0), e.phi)>>

\* np.average([l, 0.5], weights=[w1, w2]) on the fraction l = <<num, den>>
average(l, w1, w2) == <<2 * l[1] * w1 + l[2] * w2, 2 * l[2] * (w1 + w2)>>

\* the end of compute_matrices: z is the accumulator the loop left, c the
\* cascade's cell, w1 the track's count in it, w2 the cascade's photons
add_angles_and_cascade(p, e, z, c, w1, w2) ==
    LET in_binning == \A n \in 1..4 : c[n] # -1
        corr_len == [d \in DOMAIN z |-> <<1, 1>>]
    IN  IF in_binning /\ w1 + w2 = 0
        THEN [status |-> "raised", err |-> "ZeroDivisionError",
              photon_counts |-> EmptySparse, photon_corr_theta |-> EmptySparse,
              photon_corr_phi |-> EmptySparse, photon_corr_len |-> EmptySparse]
        ELSE
          [status |-> "ok", err |-> "",
           photon_counts |->
               IF in_binning THEN SparseSet(z, c, w1 + w2) ELSE z,
           photon_corr_theta |-> [d \in DOMAIN z |-> p.zenith],
           photon_corr_phi |-> [d \in DOMAIN z |-> delta_phi2(p, e, d)],
           photon_corr_len |->
               IF in_binning
               THEN SparseSet(corr_len, c,
                              average(IF c \in DOMAIN z THEN <<1, 1>> ELSE <<0, 1>>,
                                      w1, w2))
               ELSE corr_len]

\* compute_matrices once the loop over the time bins has ended as `loop`
after_loop(p, e, tr, loop, c) ==
    IF loop.err # ""
    THEN [status |-> "raised", err |-> loop.err,
          photon_counts |-> EmptySparse, photon_corr_theta |-> EmptySparse,
          photon_corr_phi |-> EmptySparse, photon_corr_len |-> EmptySparse]
    ELSE add_angles_and_cascade(p, e, loop.z, c, SparseGet(loop.z, c),
                                cascade_photons(p))

\* Hypo.compute_matrices after set_origin: what the call does with track
\* state tr.  status is "ok" with the four matrices, or "raised" with err.
compute_matrices(p, e, tr) ==
    after_loop(p, e, tr, time_loop(p, e, tr, 0, EmptySparse), cascade_cell(e, tr))

----------------------------------------------------------------------------
(* The Hypo object under a sequence of compute_matrices / set_origin calls *)

MaxCalls == 3

TimeSpaceCoord(t, x, y, z) == [t |-> t, x |-> x, y |-> y, z |-> z]

\* vertical tracks (zenith 0) that start at the height of the sensor or 16 m
\* below it, with or without a cascade at the vertex
HypoParams ==
    {[t |-> 0, x |-> 0, y |-> 0, z |-> g[1], zenith |-> 0, azimuth |-> 0,
      energy |-> g[2], cascade_energy |-> ce] :
        g \in {<<0, 4>>, <<-16, 4>>, <<-16, 8>>}, ce \in {0, 1}}

\* binnings in t (ns), r (m), theta and phi (angle indices): one bin per
\* axis, one axis split, all axes split, and a time axis that stops at 48 ns
Binning(t, r, theta, phi) == [t |-> t, r |-> r, theta |-> theta, phi |-> phi]
BinEdges ==
    {Binning(<<0, 99>>, <<0, 37>>, <<0, PI>>, <<0, TWO_PI>>),
     Binning(<<0, 48, 99>>, <<0, 37>>, <<0, PI>>, <<0, TWO_PI>>),
     Binning(<<0, 99>>, <<0, 37>>, <<0, PI_BY_TWO, PI>>, <<0, TWO_PI>>),
     Binning(<<0, 99>>, <<0, 13, 20, 37>>, <<0, PI>>, <<0, PI, TWO_PI>>),
     Binning(<<0, 48, 99>>, <<0, 13, 20, 37>>, <<0, PI_BY_TWO, PI>>, <<0, PI, TWO_PI>>),
     Binning(<<0, 48>>, <<0, 37>>, <<0, PI_BY_TWO, PI>>, <<0, TWO_PI>>)}

\* hit coordinates: the sensor on the track's line, the same hit 3 ns
\* earlier, and a sensor 12 m beside the line
HitCoords ==
    {TimeSpaceCoord(0, 0, 0, 0), TimeSpaceCoord(-3, 0, 0, 0),
     TimeSpaceCoord(0, -12, 0, 0)}

\* Track.__init__: origin (0,)*4
TrackInit(p) ==
    [origin |-> TimeSpaceCoord(0, 0, 0, 0),
     t0 |-> p.t, x0 |-> p.x, y0 |-> p.y, z0 |-> p.z]

\* what a call leaves behind: its outcome, and on the object the matrices of
\* the last call that reached the assignments at the end of compute_matrices
NoMatrices ==
    [photon_counts |-> EmptySparse, photon_corr_theta |-> EmptySparse,
     photon_corr_phi |-> EmptySparse, photon_corr_len |-> EmptySparse]
Matrices(r) ==
    [photon_counts |-> r.photon_counts, photon_corr_theta |-> r.photon_corr_theta,
     photon_corr_phi |-> r.photon_corr_phi, photon_corr_len |-> r.photon_corr_len]

Idle == [pc |-> "idle"]

Init ==
    /\ hypo \in [params : HypoParams, bin_edges : BinEdges]
    /\ track = TrackInit(hypo.params)
    /\ out = [status |-> "new", err |-> "", self |-> NoMatrices]
    /\ first = [c \in {} |-> NoMatrices]
    /\ calls = <<>>
    /\ il = Idle
    /\ px = Idle
    /\ ev = Idle
    /\ qy = Idle

\* hypo.compute_matrices(coord)
ComputeMatrices(coord) ==
    /\ Len(calls) < MaxCalls
    /\ \E tr \in {set_origin(hypo.params, track, coord)} :
       \E r \in {compute_matrices(hypo.params, hypo.bin_edges, tr)} :
           /\ track' = tr
           /\ out' = [status |-> r.status, err |-> r.err,
                      self |-> IF r.status = "ok" THEN Matrices(r) ELSE out.self]
           /\ first' = IF coord \in DOMAIN first THEN first
                       ELSE [c \in (DOMAIN first) \cup {coord} |->
                                IF c = coord THEN r ELSE first[c]]
    /\ calls' = Append(calls, coord)
    /\ UNCHANGED <<hypo, il, px, ev, qy>>

\* hypo.track.set_origin(coord), called from outside
SetOrigin(coord) ==
    /\ Len(calls) < MaxCalls
    /\ coord # track.origin
    /\ track' = set_origin(hypo.params, track, coord)
    /\ UNCHANGED <<hypo, out, first, calls, il, px, ev, qy>>

Next ==
    \/ \E coord \in HitCoords : ComputeMatrices(coord)
    \/ \E coord \in HitCoords : SetOrigin(coord)

Spec == Init /\ [][Next]_vars

----------------------------------------------------------------------------
(* Properties of compute_matrices *)

\* the sum of an accumulator over its populated cells
RECURSIVE Total(_)
Total(z) ==
    IF DOMAIN z = {} THEN 0
    ELSE LET c == CHOOSE c \in DOMAIN z : TRUE
         IN  z[c] + Total([d \in (DOMAIN z) \ {c} |-> z[d]])

\* the track as seen from hit coordinate c
SeenFrom(p, c) ==
    [origin |-> c, t0 |-> p.t - c.t, x0 |-> p.x - c.x,
     y0 |-> p.y - c.y, z0 |-> p.z - c.z]

\* the binning covers the track seen from c: its whole time span, the radii
\* of both of its ends (the radius along a line is largest at an end), every
\* polar angle and every azimuth
Covers(p, e, c) ==
    LET tr == SeenFrom(p, c)
    IN  /\ e.t[1] <= tr.t0 /\ tr.t0 + dt(p) <= e.t[Len(e.t)]
        /\ e.r[1] = 0
        /\ cr(point(p, tr, tr.t0)) <= e.r[Len(e.r)]
        /\ cr(point(p, tr, tr.t0 + dt(p))) <= e.r[Len(e.r)]
        /\ e.theta[1] = 0 /\ e.theta[Len(e.theta)] = PI
        /\ e.phi[1] = 0 /\ e.phi[Len(e.phi)] = TWO_PI

LastCall == calls[Len(calls)]

\* C1: for a track-only hypothesis and a binning that covers the track, the
\* photon counts that compute_matrices leaves sum to length * photons_per_meter
Conservation ==
    (/\ calls # <<>>
     /\ out.status = "ok"
     /\ hypo.params.cascade_energy = 0
     /\ Covers(hypo.params, hypo.bin_edges, LastCall))
    => Total(out.self.photon_counts) = length(hypo.params) * photons_per_meter

\* C3: the track's relative coordinates are params minus the current origin,
\* and a call with a hit coordinate ends as the first call with it ended: the
\* same four matrices, or the same error
Idempotence ==
    /\ track = SeenFrom(hypo.params, track.origin)
    /\ calls # <<>> =>
         /\ LastCall \in DOMAIN first
         /\ out.status = first[LastCall].status
         /\ out.err = first[LastCall].err
         /\ out.status = "ok" => out.self = Matrices(first[LastCall])

\* a hit coordinate is used again after a call with another one that left
\* different matrices
IdempotenceWitness ==
    /\ Len(calls) = 3
    /\ calls[1] = calls[3] /\ calls[2] # calls[1]
    /\ out.status = "ok" /\ first[calls[2]].status = "ok"
    /\ Matrices(first[calls[2]]) # out.self
    /\ Total(out.self.photon_counts) > 0

----------------------------------------------------------------------------
(* inner_loop on its own *)

\* interval arrays as the correlators build them: ordered pairs, the pair
\* [-1, -1] for "no overlap", pairs that touch at one point, a pair that
\* straddles 0, a pair with both ends negative; rho(theta) may be infinite
Pair(a, b) == <<Fin(a), Fin(b)>>
RArrays ==
    {<<Pair(0, 2)>>, <<Pair(-1, 1)>>, <<Pair(2, 4)>>, <<Sentinel>>,
     <<Pair(0, 1), Pair(1, 3)>>, <<Pair(-3, -2), Pair(3, 3)>>}
ThetaArrays ==
    {<<Pair(0, 4)>>, <<Pair(1, 2)>>, <<Sentinel>>, <<<<Fin(1), Inf>>>>,
     <<Pair(0, 2), Pair(2, 4)>>, <<Sentinel, <<Inf, Inf>>>>}
PhiArrays ==
    {<<Pair(0, 4)>>, <<Pair(2, 3)>>, <<Pair(-2, -1)>>,
     <<Sentinel, Pair(1, 4)>>, <<Pair(0, 1), Pair(3, 4)>>}

\* the accumulator inner_loop is handed: cell (0, 0, 0, 0) already holds 7
Z0 == [c \in {<<0, 0, 0, 0>>} |-> 7]

InitInner ==
    /\ il \in [pc : {"args"}, k : 0..1, z : {Z0},
               phi_inter : PhiArrays,
               theta_inter_neg : ThetaArrays, theta_inter_pos : ThetaArrays,
               r_inter_neg : RArrays, r_inter_pos : RArrays]
    /\ hypo = Idle /\ track = Idle /\ out = Idle /\ first = Idle /\ calls = Idle
    /\ px = Idle /\ ev = Idle /\ qy = Idle

\* z = inner_loop(z, k, phi_inter, ..., photons_per_meter)
InnerLoop ==
    /\ il.pc = "args"
    /\ il' = [il EXCEPT !.pc = "done",
                        !.z = inner_loop(il.z, il.k, il.phi_inter,
                                         il.theta_inter_neg, il.theta_inter_pos,
                                         il.r_inter_neg, il.r_inter_pos,
                                         photons_per_meter)]
    /\ UNCHANGED <<hvars, px, ev, qy>>

NextInner == InnerLoop

SpecInner == InitInner /\ [][NextInner]_vars

\* every choice of one azimuth row, one polar row of either branch array and
\* one radius row of either branch array, none of them a negative pair
\* ("sentinel"): <<i, polar branch, m, radius branch, j>>
Combinations ==
    {x \in (1..Len(il.phi_inter)) \X {"neg", "pos"} \X (1..2)
           \X {"neg", "pos"} \X (1..2) :
        /\ x[3] <= Len(IF x[2] = "neg" THEN il.theta_inter_neg ELSE il.theta_inter_pos)
        /\ x[5] <= Len(IF x[4] = "neg" THEN il.r_inter_neg ELSE il.r_inter_pos)}
PhiOf(x) == il.phi_inter[x[1]]
ThetaOf(x) == (IF x[2] = "neg" THEN il.theta_inter_neg ELSE il.theta_inter_pos)[x[3]]
ROf(x) == (IF x[4] = "neg" THEN il.r_inter_neg ELSE il.r_inter_pos)[x[5]]
NegativePair(iv) == XLt(iv[1], Fin(0)) /\ XLt(iv[2], Fin(0))
CellOf(x) == <<il.k, x[5] - 1, x[3] - 1, x[1] - 1>>

\* the three intervals share a point; if they do, the largest lower end is one
CommonPoint(x) ==
    \E q \in {ROf(x)[1], ThetaOf(x)[1], PhiOf(x)[1]} :
        \A iv \in {ROf(x), ThetaOf(x), PhiOf(x)} : XLe(iv[1], q) /\ XLe(q, iv[2])

\* B - A: the least upper end minus the largest lower end
Overlap(x) ==
    XMin2(XMin2(ROf(x)[2], ThetaOf(x)[2]), PhiOf(x)[2]).v
    - XMax2(XMax2(ROf(x)[1], ThetaOf(x)[1]), PhiOf(x)[1]).v

Adding(c) ==
    {x \in Combinations :
        /\ CellOf(x) = c /\ CommonPoint(x)
        /\ ~NegativePair(PhiOf(x)) /\ ~NegativePair(ThetaOf(x))
        /\ ~NegativePair(ROf(x))}

RECURSIVE SumOverlap(_)
SumOverlap(S) ==
    IF S = {} THEN 0
    ELSE LET x == CHOOSE x \in S : TRUE
         IN  Overlap(x) + SumOverlap(S \ {x})

Cells == (0..1) \X (0..1) \X (0..1) \X (0..1)

----------------------------------------------------------------------------
(* retro/tables/pexp_5d.py: generate_pexp_5d_function and the pexp_5d it
   returns.

   Numbers.  Positions are whole metres and times whole nanoseconds.  Table
   entries, norms and photon counts are whole numbers.  Direction cosines are
   given in fifths (dir_costheta5 = 5 * dir_costheta).  The quantum efficiency
   lies in (0, 1] and is given in halves (quantum_efficiency2 = 2 * qe), so
   every quantity that has the efficiency multiplied in is carried doubled:
   exp_p_at_all_times2 = 2 * exp_p_at_all_times.  A sum of logarithms is
   carried as the logarithm of one fraction, log(num / den), or as one of the
   IEEE specials.

   Builds.  numba_jit compiles pexp_5d when numba is installed and leaves it
   plain Python otherwise; math.log of zero or of a negative number raises
   ValueError in plain Python and gives -inf or NaN in compiled code.  The
   field jit of the generated function records which build is running.

   The sources of the model stay off the sensor's own position and off the
   vertical line above it, where the polar index leaves the table.  *)

SRC_OMNI == "SRC_OMNI"
SRC_CKV_BETA1 == "SRC_CKV_BETA1"

RECURSIVE Pow(_, _)
Pow(a, n) == IF n = 0 THEN 1 ELSE a * Pow(a, n - 1)

\* a <= b * sqrt(n) for integers a, b and n >= 0
LeSqrt(a, b, n) ==
    IF b >= 0 THEN a <= 0 \/ a * a <= b * b * n
    ELSE a <= 0 /\ a * a >= b * b * n

\* int(): truncation toward zero of the quotient a / b, b > 0
int(a, b) == IF a >= 0 THEN a \div b ELSE -((-a) \div b)

RECURSIVE np_sum(_)
np_sum(s) == IF s = <<>> THEN 0 ELSE Head(s) + np_sum(Tail(s))

\* the binning the tables were made with
r_max == 10
r_power == 2
n_r_bins == 2
n_costheta_bins == 2
t_max == 8
n_t_bins == 2
n_costhetadir_bins == 2
n_deltaphidir_bins == 2
rsquared_max == r_max * r_max
table_dt == Quot(t_max, n_t_bins)
last_costhetadir_bin_idx == n_costhetadir_bins - 1
last_deltaphidir_bin_idx == n_deltaphidir_bins - 1

tbl_is_raw(g) == g.table_kind \in {"raw_uncompr", "raw_templ_compr"}
tbl_is_ckv(g) == g.table_kind \in {"ckv_uncompr", "ckv_templ_compr"}

\* The arrays handed to pexp_5d.  tv names one set of arrays: "good" has
\* every entry positive, "zero_norm" has a time-integrated norm of zero in
\* the outer radial bin, "dark" has a time-integrated table of zeros.
\* An index is taken as numpy takes it: a negative one counts from the end.
table(tv, r, ct, t, cd, dp) == 1 + r + 2 * ct + 3 * (t % n_t_bins) + 2 * cd + 2 * dp
table_norm(tv, r, t) == 1 + r + (t % n_t_bins)
t_indep_table(tv, r, ct, cd, dp) == IF tv = "dark" THEN 0 ELSE 1 + r + ct + 2 * cd + 2 * dp
t_indep_table_norm(tv, r) == IF tv = "zero_norm" /\ r = 1 THEN 0 ELSE 1 + r

\* np.mean over the two direction axes of a slice
DirSeq == [i \in 1..(n_costhetadir_bins * n_deltaphidir_bins) |-> <<(i - 1) \div n_deltaphidir_bins, (i - 1) % n_deltaphidir_bins>>]
t_indep_mean(tv, r, ct) == Quot(np_sum([i \in DOMAIN DirSeq |-> t_indep_table(tv, r, ct, DirSeq[i][1], DirSeq[i][2])]), Len(DirSeq))
table_lookup_mean(tv, r, ct, t) == Quot(np_sum([i \in DOMAIN DirSeq |-> table(tv, r, ct, t, DirSeq[i][1], DirSeq[i][2])]), Len(DirSeq))
table_lookup(tv, r, ct, t, cd, dp) == table(tv, r, ct, t, cd, dp)

\* the cone survival probability of retro.utils.ckv, for a raw table
survival_prob_from_cone(tv, r, ct) == t_indep_mean(tv, r, ct)

\* int(r**inv_r_power / table_dr_pwr) with r = sqrt(rsquared) < r_max
r_bin_idx(rsquared) == CHOOSE i \in 0..n_r_bins : Pow(i, 2 * r_power) * rsquared_max <= Pow(n_r_bins, 2 * r_power) * rsquared /\ Pow(i + 1, 2 * r_power) * rsquared_max > Pow(n_r_bins, 2 * r_power) * rsquared

\* int((1 - dz/r) / table_dcostheta) with table_dcostheta = 2 / n_costheta_bins
costheta_bin_idx(dz, rsquared) == CHOOSE i \in 0..n_costheta_bins : LeSqrt(n_costheta_bins * dz, n_costheta_bins - 2 * i, rsquared) /\ ~LeSqrt(n_costheta_bins * dz, n_costheta_bins - 2 * (i + 1), rsquared)

\* the same index without the clamp to the last bin
costhetadir_bin_idx_unclamped(dir_costheta5) == int((dir_costheta5 + 5) * n_costhetadir_bins, 10)

\* int((pdir_costheta + 1.0) / table_dcosthetadir), clamped to the last bin
costhetadir_bin_idx(dir_costheta5) == Min2(int((dir_costheta5 + 5) * n_costhetadir_bins, 10), last_costhetadir_bin_idx)

\* 5 * rho * pdir_cosdeltaphi and rho squared; rho <= MACHINE_EPS gives cosine 1
pdir_cosdeltaphi(s, dx, dy, rhosquared) == IF rhosquared = 0 THEN <<5, 1>> ELSE <<s.dir_cosphi5 * dx + s.dir_sinphi5 * dy, rhosquared>>

\* int(abs(acos(pdir_cosdeltaphi)) / table_dphidir), table_dphidir = PI / n:
\* the number of bin edges j * PI / n, j >= 1, not beyond the angle;
\* clamped to the last bin
deltaphidir_bin_idx(c) == Min2(Cardinality({j \in 1..n_deltaphidir_bins : LeSqrt(c[1], Cos5(Quot(j * PI, n_deltaphidir_bins)), c[2])}), last_deltaphidir_bin_idx)

\* the geometry of one source seen from the sensor
Geometry(dom_info, s) ==
    [dx |-> dom_info.x - s.x, dy |-> dom_info.y - s.y, dz |-> dom_info.z - s.z,
     rhosquared |-> (dom_info.x - s.x) * (dom_info.x - s.x) + (dom_info.y - s.y) * (dom_info.y - s.y),
     rsquared |-> (dom_info.x - s.x) * (dom_info.x - s.x) + (dom_info.y - s.y) * (dom_info.y - s.y) + (dom_info.z - s.z) * (dom_info.z - s.z)]

\* "if rsquared > rsquared_max: continue": the edge of the table counts as inside
outside_strict(rsquared) == rsquared > rsquared_max

\* "if rsquared >= rsquared_max: continue"
outside(rsquared) == rsquared >= rsquared_max

\* the bin indices of one source inside the table radius; cd and dp are the
\* direction indices, assigned for a Cherenkov source and a Cherenkov table
\* only (-1: never assigned)
Indices(g, s, geo) ==
    [r |-> r_bin_idx(geo.rsquared),
     ct |-> costheta_bin_idx(geo.dz, geo.rsquared),
     cd |-> IF s.kind = SRC_CKV_BETA1 /\ ~tbl_is_raw(g) THEN costhetadir_bin_idx(s.dir_costheta5) ELSE -1,
     dp |-> IF s.kind = SRC_CKV_BETA1 /\ ~tbl_is_raw(g) THEN deltaphidir_bin_idx(pdir_cosdeltaphi(s, geo.dx, geo.dy, geo.rhosquared)) ELSE -1]

\* t_indep_surv_prob of one source, or the error raised on the way
t_indep_surv_prob(g, tv, s, ix) ==
    IF s.kind = SRC_OMNI /\ g.compute_t_indep_exp
    THEN [err |-> "", v |-> t_indep_mean(tv, ix.r, ix.ct)]
    ELSE IF s.kind = SRC_CKV_BETA1
    THEN IF tbl_is_raw(g)
         THEN [err |-> "", v |-> IF g.compute_t_indep_exp THEN survival_prob_from_cone(tv, ix.r, ix.ct) ELSE 0]
         ELSE IF t_indep_table(tv, ix.r, ix.ct, ix.cd, ix.dp) = 0
              THEN [err |-> "ValueError: xyz", v |-> 0]
              ELSE [err |-> "", v |-> t_indep_table(tv, ix.r, ix.ct, ix.cd, ix.dp)]
    ELSE [err |-> "NotImplementedError", v |-> 0]

\* "if ti_norm >= 0" in place of "if not ti_norm > 0: raise"
ti_norm_accepted_zero(ti_norm) == ti_norm >= 0

\* "if not ti_norm > 0: raise ValueError"
ti_norm_accepted(ti_norm) == ti_norm > 0

\* no test of the order of source and hit; a NaN hit time is still skipped
earlier_or_later(source_t, hit_time) == hit_time.k # "nan"

\* "if not source_t <= hit_time: continue"
not_later(source_t, hit_time) == XLe(Fin(source_t), hit_time)

\* "exp_p_at_hit_times[hit_t_idx] = ...": the last source replaces the others
overwrite(old, add) == add

\* "exp_p_at_hit_times[hit_t_idx] += ..."
accumulate(old, add) == old + add

\* surv_prob_at_hit_t of one source at one time bin, or the error raised
surv_prob_at_hit_t(g, tv, s, ix, t_bin_idx) ==
    IF s.kind = SRC_OMNI THEN [err |-> "", v |-> table_lookup_mean(tv, ix.r, ix.ct, t_bin_idx)]
    ELSE IF s.kind = SRC_CKV_BETA1
    THEN IF ix.cd < 0 THEN [err |-> IF g.jit THEN "NotDefinedError" ELSE "UnboundLocalError", v |-> 0]
         ELSE [err |-> "", v |-> table_lookup(tv, ix.r, ix.ct, t_bin_idx, ix.cd, ix.dp)]
    ELSE [err |-> "NotImplementedError", v |-> 0]

\* one pass of the loop over the hits, for one source: what the source adds
\* to exp_p_at_hit_times[hit_t_idx], or the error raised
hit_contribution(g, tv, s, ix, hit_time) ==
    IF ~not_later(s.t, hit_time) THEN [err |-> "", v |-> 0]
    ELSE IF hit_time.v - s.t >= t_max THEN [err |-> "", v |-> 0]
    ELSE LET p == surv_prob_at_hit_t(g, tv, s, ix, int(hit_time.v - s.t, table_dt))
         IN  [err |-> p.err,
              v |-> s.photons * table_norm(tv, ix.r, int(hit_time.v - s.t, table_dt)) * p.v]

\* the loop over the hits for one source; acc is [err, all, hit]
RECURSIVE hit_loop(_, _, _, _, _, _, _)
hit_loop_next(g, tv, s, ix, hits, i, acc, c) ==
    IF c.err # "" THEN [acc EXCEPT !.err = c.err]
    ELSE hit_loop(g, tv, s, ix, hits, i + 1, [acc EXCEPT !.hit[i] = accumulate(acc.hit[i], c.v)])
hit_loop(g, tv, s, ix, hits, i, acc) ==
    IF i > Len(hits) THEN acc
    ELSE hit_loop_next(g, tv, s, ix, hits, i, acc, hit_contribution(g, tv, s, ix, hits[i].time))

\* the body of the loop over the sources after the indices are known
source_expect(g, tv, s, ix, hits, acc, p) ==
    IF p.err # "" THEN [acc EXCEPT !.err = p.err]
    ELSE IF g.compute_t_indep_exp /\ ~ti_norm_accepted(t_indep_table_norm(tv, ix.r))
    THEN [acc EXCEPT !.err = "ValueError: time indep norm is not > 0!"]
    ELSE hit_loop(g, tv, s, ix, hits, 1,
                  IF g.compute_t_indep_exp
                  THEN [acc EXCEPT !.all = acc.all + s.photons * t_indep_table_norm(tv, ix.r) * p.v]
                  ELSE acc)

source_indexed(g, tv, s, ix, hits, acc) == source_expect(g, tv, s, ix, hits, acc, t_indep_surv_prob(g, tv, s, ix))

source_body(g, tv, dom_info, s, geo, hits, acc) ==
    IF outside(geo.rsquared) THEN acc
    ELSE source_indexed(g, tv, s, Indices(g, s, geo), hits, acc)

\* "for source in sources:"
RECURSIVE source_loop(_, _, _, _, _, _, _)
source_loop_next(g, tv, dom_info, sources, hits, n, acc) ==
    IF acc.err # "" THEN acc ELSE source_loop(g, tv, dom_info, sources, hits, n + 1, acc)
source_loop(g, tv, dom_info, sources, hits, n, acc) ==
    IF n > Len(sources) THEN acc
    ELSE source_loop_next(g, tv, dom_info, sources, hits, n, source_body(g, tv, dom_info, sources[n], Geometry(dom_info, sources[n]), hits, acc))

\* a logarithm, or a sum of logarithms: log(num / den) or an IEEE special
LogFin(num, den) == [k |-> "fin", num |-> num, den |-> den]
LogNegInf == [k |-> "-inf", num |-> 0, den |-> 1]
LogNaN == [k |-> "nan", num |-> 0, den |-> 1]

\* math.log(x2 / 2), or the error raised
math_log(jit, x2) ==
    IF x2 > 0 THEN [err |-> "", v |-> LogFin(x2, 2)]
    ELSE IF ~jit THEN [err |-> "ValueError: math domain error", v |-> LogNaN]
    ELSE IF x2 = 0 THEN [err |-> "", v |-> LogNegInf]
    ELSE [err |-> "", v |-> LogNaN]

\* hit_mult * a for a whole hit_mult >= 0: zero times an infinity is NaN
LogTimes(hit_mult, a) ==
    IF a.k = "nan" THEN LogNaN
    ELSE IF a.k = "fin" THEN LogFin(Pow(a.num, hit_mult), Pow(a.den, hit_mult))
    ELSE IF hit_mult = 0 THEN LogNaN
    ELSE a

\* a + b
LogPlus(a, b) ==
    IF a.k = "nan" \/ b.k = "nan" THEN LogNaN
    ELSE IF a.k = "fin" /\ b.k = "fin" THEN LogFin(a.num * b.num, a.den * b.den)
    ELSE IF a.k = "fin" THEN b
    ELSE IF b.k = "fin" THEN a
    ELSE IF a.k = b.k THEN a
    ELSE LogNaN

\* "for hit_idx in range(num_hits): sum_log_at_hit_times += ..."
RECURSIVE sum_log_loop(_, _, _, _, _, _)
sum_log_next(jit, dom_info, hits, exp_p_at_hit_times, i, sum_log, l) ==
    IF l.err # "" THEN [err |-> l.err, v |-> sum_log]
    ELSE sum_log_loop(jit, dom_info, hits, exp_p_at_hit_times, i + 1, LogPlus(sum_log, LogTimes(hits[i].mult, l.v)))
sum_log_loop(jit, dom_info, hits, exp_p_at_hit_times, i, sum_log) ==
    IF i > Len(hits) THEN [err |-> "", v |-> sum_log]
    ELSE sum_log_next(jit, dom_info, hits, exp_p_at_hit_times, i, sum_log, math_log(jit, dom_info.quantum_efficiency2 * exp_p_at_hit_times[i] + 2 * dom_info.noise_rate_per_ns))

Raised(err) == [status |-> "raised", err |-> err, exp_p_at_all_times2 |-> 0, sum_log_at_hit_times |-> LogNaN, exp_p_at_hit_times |-> <<>>]

\* the end of pexp_5d: the efficiency and the noise, the test for an
\* infinite sum, and the return
finish_sum(dom_info, window, acc, sl) ==
    IF sl.err # "" THEN Raised(sl.err)
    ELSE IF sl.v.k \in {"inf", "-inf"} THEN Raised("ValueError: sum_log_at_hit_times is inf!")
    ELSE [status |-> "ok", err |-> "",
          exp_p_at_all_times2 |-> acc.all * dom_info.quantum_efficiency2 + 2 * dom_info.noise_rate_per_ns * window,
          sum_log_at_hit_times |-> sl.v,
          exp_p_at_hit_times |-> acc.hit]

finish(g, dom_info, hits, window, acc) ==
    IF acc.err # "" THEN Raised(acc.err)
    ELSE finish_sum(dom_info, window, acc, sum_log_loop(g.jit, dom_info, hits, acc.hit, 1, LogFin(1, 1)))

\* no early return: a sensor that is not operational is evaluated as any other
never_returns_early(dom_info) == FALSE

\* "if not dom_info['operational']: return np.float64(0), np.float64(0)"
returns_early(dom_info) == ~dom_info.operational

\* pexp_5d of the function generated with g
pexp_5d(g, sources, hits, dom_info, window, tv) ==
    IF returns_early(dom_info)
    THEN [status |-> "ok", err |-> "", exp_p_at_all_times2 |-> 0,
          sum_log_at_hit_times |-> LogFin(1, 1), exp_p_at_hit_times |-> <<>>]
    ELSE finish(g, dom_info, hits, window,
                source_loop(g, tv, dom_info, sources, hits, 1,
                            [err |-> "", all |-> 0, hit |-> [i \in 1..Len(hits) |-> 0]]))

----------------------------------------------------------------------------
(* pexp_5d called on its own: one function is generated, its arguments are
   drawn, and it is called once. *)

MaxSources == 2

GeneratedFunctions == [table_kind : {"ckv_uncompr", "raw_uncompr"}, compute_t_indep_exp : BOOLEAN, jit : BOOLEAN]

DomInfos ==
    {[operational |-> FALSE, x |-> 0, y |-> 0, z |-> 0, quantum_efficiency2 |-> 2, noise_rate_per_ns |-> 1]}
    \cup [operational : {TRUE}, x : {0}, y : {0}, z : {0}, quantum_efficiency2 : {1, 2}, noise_rate_per_ns : {0, 1}]

Source(kind, t, x, y, z, photons, ct5, cp5, sp5) ==
    [kind |-> kind, t |-> t, x |-> x, y |-> y, z |-> z, photons |-> photons,
     dir_costheta5 |-> ct5, dir_cosphi5 |-> cp5, dir_sinphi5 |-> sp5]

Sources ==
    { Source(SRC_OMNI, 0, 0, 0, -3, 2, 0, 5, 0),
      Source(SRC_CKV_BETA1, 2, -3, -4, 0, 1, 5, 3, 4),
      Source(SRC_CKV_BETA1, 6, 1, 0, -1, 3, -5, 5, 0),
      Source(SRC_OMNI, 0, 0, 0, -10, 5, 0, 5, 0),
      Source(SRC_CKV_BETA1, 4, -3, 0, -4, 1, 0, 0, 5) }

SourceLists == UNION {[1..n -> Sources] : n \in 0..MaxSources}

Hit(time, mult) == [time |-> time, mult |-> mult]

HitLists ==
    { <<>>,
      <<Hit(Fin(5), 1)>>,
      <<Hit(Fin(5), 2), Hit(NaN, 1)>>,
      <<Hit(Fin(3), 0), Hit(Fin(9), 1)>> }

TimeWindows == {0, 10}

TableSets == {"good", "zero_norm", "dark"}

InitPexp ==
    /\ hypo = Idle /\ track = Idle /\ out = Idle /\ first = Idle /\ calls = Idle
    /\ il = Idle /\ ev = Idle /\ qy = Idle
    /\ \E g \in GeneratedFunctions, sources \in SourceLists, hits \in HitLists,
          dom_info \in DomInfos, window \in TimeWindows, tv \in TableSets :
          px = [pc |-> "args", g |-> g, sources |-> sources, hits |-> hits,
                dom_info |-> dom_info, time_window |-> window, tables |-> tv,
                result |-> Raised("")]

Pexp5d ==
    /\ px.pc = "args"
    /\ px' = [px EXCEPT !.pc = "done",
                        !.result = pexp_5d(px.g, px.sources, px.hits, px.dom_info, px.time_window, px.tables)]
    /\ UNCHANGED <<hvars, il, ev, qy>>

NextPexp == Pexp5d

SpecPexp == InitPexp /\ [][NextPexp]_vars

----------------------------------------------------------------------------
(* Properties of pexp_5d *)

Done == px.pc = "done"
Returned == Done /\ px.result.status = "ok"
Operational == px.dom_info.operational
Inside(s) == Geometry(px.dom_info, s).rsquared < rsquared_max
IndicesOf(s) == Indices(px.g, s, Geometry(px.dom_info, s))

\* exp_p_at_hit_times after the loop over the given sources, with the
\* hits, the sensor and the tables of the call
ExpectedFrom(sources) == source_loop(px.g, px.tables, px.dom_info, sources, px.hits, 1, [err |-> "", all |-> 0, hit |-> [i \in 1..Len(px.hits) |-> 0]]).hit

\* the sources of the call that are not later than a hit time
NotLaterThan(hit_time) == SelectSeq(px.sources, LAMBDA s : hit_time.k = "fin" /\ s.t <= hit_time.v)

\* C4: Causality.  In a call that returns, the expected count of every hit
\* is the count the same call gives with the sources later than that hit
\* removed, and a hit whose time is NaN has an expected count of zero.
Causality ==
    (Returned /\ Operational) =>
        \A i \in DOMAIN px.hits :
            /\ px.result.exp_p_at_hit_times[i] = ExpectedFrom(NotLaterThan(px.hits[i].time))[i]
            /\ px.hits[i].time.k = "nan" => px.result.exp_p_at_hit_times[i] = 0

CausalityWitness ==
    /\ Returned /\ Operational
    /\ \E i, j \in DOMAIN px.hits, n \in DOMAIN px.sources :
          /\ px.hits[i].time.k = "fin" /\ px.hits[j].time.k = "nan"
          /\ px.result.exp_p_at_hit_times[i] > 0
          /\ Inside(px.sources[n]) /\ px.sources[n].t > px.hits[i].time.v
          /\ px.sources[n].t - px.hits[i].time.v < t_max

\* the Cherenkov sources of the call, when the table is a discretized cone table
CkvLookups == {n \in DOMAIN px.sources : tbl_is_ckv(px.g) /\ px.sources[n].kind = SRC_CKV_BETA1 /\ Inside(px.sources[n])}
CosDeltaPhi(s) == pdir_cosdeltaphi(s, Geometry(px.dom_info, s).dx, Geometry(px.dom_info, s).dy, Geometry(px.dom_info, s).rhosquared)

\* C5: Direction bin indices.  For a Cherenkov source looked up in a
\* discretized cone table both direction indices lie in [0, n_bins - 1]; the
\* polar index is floor((dir_costheta + 1) / dcosthetadir) below the last
\* bin and the last bin from there on, so -1 maps to bin 0 and +1 to the
\* last bin; the azimuthal index is floor(deltaphi / dphidir) below the last
\* bin and the last bin from there on, so deltaphi = 0 maps to bin 0 and
\* deltaphi = pi to the last bin.
DirectionBins ==
    Done =>
        \A n \in CkvLookups :
            LET s == px.sources[n]
                cd == IndicesOf(s).cd
                dp == IndicesOf(s).dp
                c == CosDeltaPhi(s)
            IN  /\ cd \in 0..(n_costhetadir_bins - 1)
                /\ dp \in 0..(n_deltaphidir_bins - 1)
                /\ cd * 10 <= (s.dir_costheta5 + 5) * n_costhetadir_bins
                /\ cd < n_costhetadir_bins - 1 => (s.dir_costheta5 + 5) * n_costhetadir_bins < (cd + 1) * 10
                /\ s.dir_costheta5 = -5 => cd = 0
                /\ s.dir_costheta5 = 5 => cd = n_costhetadir_bins - 1
                /\ c[1] * c[1] = 25 * c[2] /\ c[1] > 0 => dp = 0
                /\ c[1] * c[1] = 25 * c[2] /\ c[1] < 0 => dp = n_deltaphidir_bins - 1
                /\ LeSqrt(c[1], Cos5(Quot(dp * PI, n_deltaphidir_bins)), c[2])
                /\ dp < n_deltaphidir_bins - 1 => ~LeSqrt(c[1], Cos5(Quot((dp + 1) * PI, n_deltaphidir_bins)), c[2])

DirectionBinsWitness ==
    /\ Returned /\ Operational /\ px.hits # <<>>
    /\ \E m, n \in CkvLookups :
          /\ px.sources[m].dir_costheta5 = 5 /\ px.sources[n].dir_costheta5 = -5
          /\ CosDeltaPhi(px.sources[m]) = <<25, 25>>
          /\ CosDeltaPhi(px.sources[n])[1] = -5 /\ CosDeltaPhi(px.sources[n])[2] = 1

\* the same call for a sensor that is operational
AsOperational == pexp_5d(px.g, px.sources, px.hits, [px.dom_info EXCEPT !.operational = TRUE], px.time_window, px.tables)

\* C6: Non-operational sensor.  A call for a sensor that is not operational
\* returns (0, 0) and raises nothing, whatever the sources, hits and tables.
NonOperational ==
    (Done /\ ~Operational) =>
        /\ px.result.status = "ok"
        /\ px.result.exp_p_at_all_times2 = 0
        /\ px.result.sum_log_at_hit_times = LogFin(1, 1)

NonOperationalWitness ==
    /\ Done /\ ~Operational
    /\ px.sources # <<>> /\ px.hits # <<>>
    /\ px.result.status = "ok"
    /\ AsOperational.status = "raised"

\* the sources inside the table radius whose radial bin has a
\* time-integrated norm that is not strictly positive
BadNorm == {n \in DOMAIN px.sources : Inside(px.sources[n]) /\ ~(t_indep_table_norm(px.tables, IndicesOf(px.sources[n]).r) > 0)}

\* C7: Zero normalization is fatal.  A call that computes the
\* time-integrated expectation and meets a source inside the table radius
\* whose time-integrated norm is not strictly positive raises an error.
ZeroNormFatal ==
    (Done /\ Operational /\ px.g.compute_t_indep_exp /\ BadNorm # {}) => px.result.status = "raised"

ZeroNormFatalWitness ==
    /\ Done /\ Operational /\ px.g.compute_t_indep_exp /\ BadNorm # {}
    /\ px.result.err = "ValueError: time indep norm is not > 0!"
    /\ \E n \in DOMAIN px.sources : n \notin BadNorm

\* C8: Non-finite likelihood is fatal.  Every call that returns returns a
\* finite sum of the per-hit log terms.
FiniteLikelihood == Returned => px.result.sum_log_at_hit_times.k = "fin"

\* the sources that count for a hit: inside the table radius, not later than
\* the hit and less than t_max before it
Counts(s, hit_time) == Inside(s) /\ hit_time.k = "fin" /\ s.t <= hit_time.v /\ hit_time.v - s.t < t_max
TBin(s, hit_time) == (hit_time.v - s.t) \div table_dt
SurvivalAt(s, hit_time) ==
    IF s.kind = SRC_OMNI THEN table_lookup_mean(px.tables, IndicesOf(s).r, IndicesOf(s).ct, TBin(s, hit_time))
    ELSE table(px.tables, IndicesOf(s).r, IndicesOf(s).ct, TBin(s, hit_time), IndicesOf(s).cd, IndicesOf(s).dp)
ExpectedAtHit(hit_time) ==
    np_sum([n \in DOMAIN px.sources |->
               IF Counts(px.sources[n], hit_time)
               THEN px.sources[n].photons * table_norm(px.tables, IndicesOf(px.sources[n]).r, TBin(px.sources[n], hit_time)) * SurvivalAt(px.sources[n], hit_time)
               ELSE 0])

\* hit_multiplicity * log(quantum_efficiency * expected_at_hit + noise_rate_per_ns)
LogTerm(hit) ==
    LET x2 == px.dom_info.quantum_efficiency2 * ExpectedAtHit(hit.time) + 2 * px.dom_info.noise_rate_per_ns
    IN  LogTimes(hit.mult, IF x2 > 0 THEN LogFin(x2, 2) ELSE IF x2 = 0 THEN LogNegInf ELSE LogNaN)
RECURSIVE LogSum(_)
LogSum(s) == IF s = <<>> THEN LogFin(1, 1) ELSE LogPlus(Head(s), LogSum(Tail(s)))
LogEq(a, b) == a.k = b.k /\ (a.k = "fin" => a.num * b.den = b.num * a.den)
Reverse(s) == [i \in DOMAIN s |-> s[Len(s) + 1 - i]]
Reordered == pexp_5d(px.g, Reverse(px.sources), px.hits, px.dom_info, px.time_window, px.tables)

ZeroWithoutTimeIndep ==
    (Returned /\ Operational /\ ~px.g.compute_t_indep_exp) => px.result.exp_p_at_all_times2 = 0

\* the sources of the call inside the table radius
InsideOnly == SelectSeq(px.sources, Inside)

\* the elapsed time of a (source, hit) pair is at or beyond the table's
\* maximum time
TooOld(s, hit_time) == hit_time.k = "fin" /\ hit_time.v - s.t >= t_max

\* C11: Out-of-domain contributions are silently excluded.  A call gives
\* the result, value or error, of the same call without its sources at or
\* beyond the table radius; a (source, hit) pair with an elapsed time at or
\* beyond t_max adds zero to the hit's expected count and raises nothing.
OutOfDomain ==
    (Done /\ Operational) =>
        /\ px.result = pexp_5d(px.g, InsideOnly, px.hits, px.dom_info, px.time_window, px.tables)
        /\ \A n \in DOMAIN px.sources, i \in DOMAIN px.hits :
              (Inside(px.sources[n]) /\ TooOld(px.sources[n], px.hits[i].time)) =>
                  /\ hit_contribution(px.g, px.tables, px.sources[n], IndicesOf(px.sources[n]), px.hits[i].time) = [err |-> "", v |-> 0]
                  /\ Returned => px.result.exp_p_at_hit_times[i] = ExpectedFrom(SelectSeq(px.sources, LAMBDA s : ~TooOld(s, px.hits[i].time)))[i]

OutOfDomainWitness ==
    /\ Returned /\ Operational /\ px.g.compute_t_indep_exp
    /\ px.result.exp_p_at_all_times2 > 2 * px.dom_info.noise_rate_per_ns * px.time_window
    /\ \E n, m \in DOMAIN px.sources, i, j \in DOMAIN px.hits :
          /\ ~Inside(px.sources[n]) /\ px.sources[n].photons > 0
          /\ Inside(px.sources[m]) /\ TooOld(px.sources[m], px.hits[i].time)
          /\ px.result.exp_p_at_hit_times[j] > 0

----------------------------------------------------------------------------
(* Two evaluations of one Hypo that run interleaved.  Each evaluation is a
   call of compute_matrices with its own hit coordinate: first the call of
   track.set_origin, which writes the track state of the one Hypo, then the
   rest of the body, which reads that track state as it then is.  *)

Evaluations == 1..2

InitTwo ==
    /\ hypo \in [params : HypoParams, bin_edges : BinEdges]
    /\ track = TrackInit(hypo.params)
    /\ out = [status |-> "new", err |-> "", self |-> NoMatrices]
    /\ first = Idle /\ calls = Idle /\ il = Idle /\ px = Idle /\ qy = Idle
    /\ \E c \in HitCoords \X HitCoords :
          /\ c[1] # c[2]
          /\ ev = [i \in Evaluations |-> [pc |-> "start", coord |-> c[i], result |-> Idle]]

\* "self.track.set_origin(hit_dom_coord)" of evaluation i
EvSetOrigin(i) ==
    /\ ev[i].pc = "start"
    /\ track' = set_origin(hypo.params, track, ev[i].coord)
    /\ ev' = [ev EXCEPT ![i].pc = "body"]
    /\ UNCHANGED <<hypo, out, first, calls, il, px, qy>>

\* the rest of compute_matrices of evaluation i
EvBody(i) ==
    /\ ev[i].pc = "body"
    /\ \E r \in {compute_matrices(hypo.params, hypo.bin_edges, track)} :
          /\ ev' = [ev EXCEPT ![i].pc = "done", ![i].result = r]
          /\ out' = [status |-> r.status, err |-> r.err,
                     self |-> IF r.status = "ok" THEN Matrices(r) ELSE out.self]
    /\ UNCHANGED <<hypo, track, first, calls, il, px, qy>>

NextTwo ==
    \/ \E i \in Evaluations : EvSetOrigin(i)
    \/ \E i \in Evaluations : EvBody(i)

SpecTwo == InitTwo /\ [][NextTwo]_vars

\* C12: Isolation of evaluations.  Each of two interleaved evaluations of
\* one Hypo ends with the accumulators it has when it runs alone, and reads
\* no track state that the other evaluation wrote.
Isolation ==
    \A i \in Evaluations :
        /\ ev[i].pc = "body" => track.origin = ev[i].coord
        /\ ev[i].pc = "done" => ev[i].result = compute_matrices(hypo.params, hypo.bin_edges, SeenFrom(hypo.params, ev[i].coord))

----------------------------------------------------------------------------
(* The concrete scenario: a track along the polar axis that starts at the
   sensor, one bin per axis, the radius bin [0, L], no cascade.  The sensor
   sits at the track's vertex; the hit time is the track's start time, 3 ns
   before it or 3 ns after it. *)

ScenarioParams ==
    {[t |-> 0, x |-> 0, y |-> 0, z |-> 0, zenith |-> 0, azimuth |-> 0,
      energy |-> en, cascade_energy |-> 0] : en \in {1, 2, 4, 8}}

ScenarioBinEdges(p) ==
    {Binning(t, <<0, length(p)>>, <<0, PI>>, <<0, TWO_PI>>) :
        t \in {<<0, dt(p)>>, <<0, dt(p) + 3>>, <<-3, dt(p) + 3>>, <<-3, 99>>}}

ScenarioCoords ==
    {TimeSpaceCoord(0, 0, 0, 0), TimeSpaceCoord(-3, 0, 0, 0), TimeSpaceCoord(3, 0, 0, 0)}

InitScenario ==
    /\ \E p \in ScenarioParams : \E e \in ScenarioBinEdges(p) : hypo = [params |-> p, bin_edges |-> e]
    /\ track = TrackInit(hypo.params)
    /\ out = [status |-> "new", err |-> "", self |-> NoMatrices]
    /\ first = [c \in {} |-> NoMatrices]
    /\ calls = <<>>
    /\ il = Idle /\ px = Idle /\ ev = Idle /\ qy = Idle

NextScenario ==
    \/ \E coord \in ScenarioCoords : ComputeMatrices(coord)
    \/ \E coord \in ScenarioCoords : SetOrigin(coord)

SpecScenario == InitScenario /\ [][NextScenario]_vars

\* the last call is the scenario: the track starts at the sensor and its
\* whole transit lies in the one time bin
InScenario ==
    /\ calls # <<>>
    /\ SeenFrom(hypo.params, LastCall).x0 = 0
    /\ SeenFrom(hypo.params, LastCall).y0 = 0
    /\ SeenFrom(hypo.params, LastCall).z0 = 0
    /\ hypo.params.zenith = 0 /\ hypo.params.cascade_energy = 0
    /\ Len(hypo.bin_edges.t) = 2
    /\ hypo.bin_edges.t[1] <= SeenFrom(hypo.params, LastCall).t0
    /\ SeenFrom(hypo.params, LastCall).t0 + dt(hypo.params) <= hypo.bin_edges.t[2]
    /\ hypo.bin_edges.r = <<0, length(hypo.params)>>
    /\ hypo.bin_edges.theta = <<0, PI>> /\ hypo.bin_edges.phi = <<0, TWO_PI>>

\* C13: Concrete scenario.  In the scenario compute_matrices populates the
\* cell (0, 0, 0, 0) and no other, with L * photons_per_meter photons.
OneCell ==
    InScenario =>
        /\ out.status = "ok"
        /\ DOMAIN out.self.photon_counts = {<<0, 0, 0, 0>>}
        /\ out.self.photon_counts[<<0, 0, 0, 0>>] = length(hypo.params) * photons_per_meter

----------------------------------------------------------------------------
(* The methods of Track and Hypo called on their own *)

\* track parameters: vertical tracks and tracks along (3/5, 0, 4/5),
\* (4/5, 0, 3/5), (12/25, 9/25, 4/5), that start at the sensor, on a line
\* through it, or beside it.  On a line through the sensor the quotient of
\* Track.ts is 0/0 in exact arithmetic; in floating point the rounding of the
\* products decides between nan, an infinity and a finite time.  The start
\* points are ones for which the floats give 0/0 = nan as well.
StartPoints ==
    {<<0, 0, 0>>, <<0, 0, -5>>, <<-15, 0, -20>>, <<-12, -9, -20>>,
     <<-60, 0, 0>>, <<-60, 25, 0>>, <<-3, 0, 1>>}
\* a horizontal track along +y that crosses the half plane of azimuth 0:
\* it starts at azimuth 2 pi - arcsin(4/5), passes azimuth 0 after 4 m and
\* is at azimuth arcsin(4/5) after 8 m
WrapStartPoints == {<<3, -4, 0>>}
TrackParams ==
    {[t |-> 0, x |-> s[1], y |-> s[2], z |-> s[3], zenith |-> zenith,
      azimuth |-> azimuth, energy |-> energy, cascade_energy |-> 0] :
        s \in StartPoints, zenith \in {0, 1, 2, PI},
        azimuth \in {0, 1}, energy \in {1, 2}}
    \cup {[t |-> 0, x |-> s[1], y |-> s[2], z |-> s[3], zenith |-> PI_BY_TWO,
           azimuth |-> PI_BY_TWO, energy |-> energy, cascade_energy |-> 0] :
             s \in WrapStartPoints, energy \in {1, 2}}

\* the hit times the track is seen from; the sensor is at the origin
QueryCoords == {TimeSpaceCoord(t, 0, 0, 0) : t \in {-3, 0, 3}}

\* the ends of the time windows extent is asked about
WindowEnds == {-6, 0, 3, 12, 15, 30}

\* the number of calls made on one track
MaxQueries == 1

\* the state after one more call: what was called, with what, and its result
Query(q, pc, args, result) == [q EXCEPT !.pc = pc, !.n = q.n + 1, !.args = args, !.result = result]

\* Track(params), then set_origin(coord)
InitQuery ==
    /\ hypo = Idle /\ track = Idle /\ out = Idle /\ first = Idle
    /\ calls = Idle /\ il = Idle /\ px = Idle /\ ev = Idle
    /\ \E p \in TrackParams, c \in QueryCoords :
          qy = [pc |-> "new", n |-> 0, p |-> p, tr |-> set_origin(p, TrackInit(p), c),
                args |-> <<>>, result |-> <<>>]

\* Track.extent(t_low, t_high)
Extent(t_low, t_high) ==
    /\ t_low <= t_high
    /\ qy.n < MaxQueries
    /\ qy' = Query(qy, "extent", <<t_low, t_high>>, extent(qy.p, qy.tr, t_low, t_high))
    /\ UNCHANGED <<hvars, il, px, ev>>

\* Track.tb, for the tracks whose quotient by the speed is whole
Tb ==
    /\ Divides(25, proj25(qy.p, qy.tr))
    /\ qy.n < MaxQueries
    /\ qy' = Query(qy, "tb", <<>>, tb(qy.p, qy.tr))
    /\ UNCHANGED <<hvars, il, px, ev>>

\* the quotient of Track.ts is whole, or has a zero denominator.  A
\* horizontal track in the plane z = 0 is left out: np.cos(np.pi / 2) is
\* 6e-17, not 0, and the quotient of the two rounding errors is arbitrary.
ts_is_exact(p, tr) ==
    LET h == tr.x0 * cosphi(p) + tr.y0 * sinphi(p)
        num == - 25 * costheta(p) * (tr.x0 * tr.x0 + tr.y0 * tr.y0)
               + 5 * sintheta(p) * tr.z0 * h
        den == sintheta(p) * costheta(p) * h
               - 5 * tr.z0 * sintheta(p) * sintheta(p)
    IN  /\ ~(costheta(p) = 0 /\ tr.z0 = 0)
        /\ (den = 0 \/ Divides(den, num * NS_PER_M))

\* Track.ts, for the tracks whose quotient is whole or divides by zero
Ts ==
    /\ ts_is_exact(qy.p, qy.tr)
    /\ qy.n < MaxQueries
    /\ qy' = Query(qy, "ts", <<>>, ts(qy.p, qy.tr))
    /\ UNCHANGED <<hvars, il, px, ev>>

\* strictly increasing bin edges, and the values looked up in them
QueryEdges == {<<0, 4>>, <<0, 2, 4>>, <<1, 2, 4, 5>>}
QueryValues == -1..6

\* Hypo.get_bin(val, bin_edges)
GetBin(val, bin_edges) ==
    /\ qy.n < MaxQueries
    /\ qy' = Query(qy, "get_bin", <<val, bin_edges>>, get_bin(val, bin_edges))
    /\ UNCHANGED <<hvars, il, px, ev>>

\* the GCD files that exist, each with the detector information it holds;
\* "run1.i3" and "run1.pkl" describe the same detector
GcdFiles == {"run1.pkl", "run1.i3", "run2.pkl"}
GcdInfo(path) == IF path = "run2.pkl" THEN "detector2" ELSE "detector1"
NoGcd == ""
IsPkl(path) == path \in {"run1.pkl", "run2.pkl"}
IsI3(path) == path = "run1.i3"

\* generate_histos, from the arguments to the lookup of gcd_info['rde']:
\* the error raised ("" for none), the gcd_info used, whether the warning
\* was printed
resolve_gcd(gcd, photons_gcd) ==
    LET gcd_info == IF gcd = NoGcd THEN NoGcd ELSE GcdInfo(gcd)
        gcd_info_from_data == GcdInfo(photons_gcd)
        resolved ==
            IF photons_gcd = NoGcd \/ gcd_info # NoGcd THEN gcd_info
            ELSE gcd_info_from_data
    IN  IF gcd # NoGcd /\ ~IsPkl(gcd) /\ ~IsI3(gcd)
        THEN [err |-> "ValueError", gcd_info |-> NoGcd, warning |-> FALSE]
        ELSE [err |-> IF resolved = NoGcd THEN "TypeError" ELSE "",
              gcd_info |-> resolved,
              warning |-> /\ photons_gcd # NoGcd /\ gcd_info # NoGcd
                          /\ gcd_info # gcd_info_from_data]

\* generate_histos(photons_file, ..., gcd=gcd) with photons_file['gcd']
GenerateHistos(gcd, photons_gcd) ==
    /\ qy.n < MaxQueries
    /\ qy' = Query(qy, "generate_histos", <<gcd, photons_gcd>>, resolve_gcd(gcd, photons_gcd))
    /\ UNCHANGED <<hvars, il, px, ev>>

\* the times Hypo.compute_matrices passes to Track.point: tb and ts when
\* they pass their range tests, and the two ends of the extent of every
\* time bin the track overlaps
point_calls(p, tr, t_edges) ==
    (IF has_r_inflection_point(p, tr) THEN {tb(p, tr)} ELSE {})
    \cup (IF has_theta_inflection_point(p, tr) THEN {ts(p, tr).v} ELSE {})
    \cup UNION {IF extent(p, tr, t_edges[k], t_edges[k + 1]) = <<>> THEN {}
                ELSE {extent(p, tr, t_edges[k], t_edges[k + 1])[1],
                      extent(p, tr, t_edges[k], t_edges[k + 1])[2]} :
                    k \in 1..(Len(t_edges) - 1)}

\* the time edges of the binning
TimeEdges == {<<0, 99>>, <<0, 12, 24>>, <<-6, 3, 30>>, <<3, 6>>, <<-30, -6>>}

\* the part of Hypo.compute_matrices that queries the track's points
PointCalls(t_edges) ==
    /\ Divides(25, proj25(qy.p, qy.tr))
    /\ ts_is_exact(qy.p, qy.tr)
    /\ qy.n < MaxQueries
    /\ qy' = Query(qy, "point_calls", t_edges, point_calls(qy.p, qy.tr, t_edges))
    /\ UNCHANGED <<hvars, il, px, ev>>

\* the radii and the angles the correlators are asked about: bin edges, and
\* the two extreme values of a branch (<<-1, -1>> for a branch that is absent)
RadiusEdges == {<<0, 65>>, <<0, 25, 65>>}
RadiusExtents == {<<-1, -1>>, <<0, 25>>, <<25, 65>>, <<60, 65>>, <<25, 25>>}
ThetaEdges == {<<0, PI>>, <<0, PI_BY_TWO, PI>>, <<0, 1, PI_BY_TWO>>}
ThetaExtents == {<<-1, -1>>, <<0, PI_BY_TWO>>, <<PI_BY_TWO, 1>>, <<PI_BY_TWO, PI>>, <<PI, PI>>, <<1, 1>>, <<PI_BY_TWO, PI_BY_TWO>>}
PhiEdges == {<<0, TWO_PI>>, <<0, PI, TWO_PI>>, <<0, PI_BY_TWO, PI, 9, TWO_PI>>}
PhiExtents == {<<0, PI>>, <<PI_BY_TWO, PI>>, <<PI, PI>>, <<9, PI_BY_TWO>>, <<PI, TWO_PI>>, <<9, 0>>, <<10, 2>>, <<10, 0>>}

\* the values a correlator passes to the inverse functions
EdgesAndExtent(bin_edges, t) == {bin_edges[i] : i \in DOMAIN bin_edges} \cup {t[1], t[2]}

\* the distance of a vertical track from the z axis is a whole multiple of
\* 12 m, so that every root of rho(theta) is whole
theta_is_exact(p, tr) ==
    /\ p.zenith = 0
    /\ \E d \in {0, 12, 60} : d * d = tr.x0 * tr.x0 + tr.y0 * tr.y0

\* the square root in get_A is whole (or not taken) for a vertical track
r_is_exact(p, tr, R) ==
    /\ p.zenith = 0
    /\ \/ R * R < tr.x0 * tr.x0 + tr.y0 * tr.y0
       \/ \E A \in 0..R : A * A = R * R - tr.x0 * tr.x0 - tr.y0 * tr.y0

\* the quotient in rho_of_phi is whole (or divides by zero) for a track that
\* is not vertical; for a track along y (cosphi = 0) the azimuths pi / 2 and
\* 3 pi / 2, where the denominator is a rounding error, are left out
phi_is_exact(p, tr, phi) ==
    /\ p.zenith \notin {0, PI}
    /\ IF cosphi(p) = 0 THEN Cos5(phi) # 0
       ELSE Divides(cosphi(p) * sintheta(p), 25 * tr.x0)
    /\ \/ rho_of_phi_den(p, phi) = 0
       \/ Divides(rho_of_phi_den(p, phi), 25 * rho_of_phi_num(tr, phi))

\* Hypo.correlate_r(bin_edges, t, pos)
CorrelateR(bin_edges, t, pos) ==
    /\ \A R \in EdgesAndExtent(bin_edges, t) : r_is_exact(qy.p, qy.tr, R)
    /\ qy.n < MaxQueries
    /\ qy' = Query(qy, "correlate_r", <<bin_edges, t, pos>>, correlate_r(qy.p, qy.tr, bin_edges, t, pos))
    /\ UNCHANGED <<hvars, il, px, ev>>

\* Hypo.correlate_theta(bin_edges, t, rho_extent), rho_extent the whole track
CorrelateTheta(bin_edges, t) ==
    /\ theta_is_exact(qy.p, qy.tr)
    /\ qy.n < MaxQueries
    /\ qy' = Query(qy, "correlate_theta", <<bin_edges, t>>, correlate_theta(qy.p, qy.tr, bin_edges, t, <<0, length(qy.p)>>))
    /\ UNCHANGED <<hvars, il, px, ev>>

\* Hypo.correlate_phi(bin_edges, t, rho_extent), rho_extent the whole track
CorrelatePhi(bin_edges, t) ==
    /\ \A phi \in EdgesAndExtent(bin_edges, t) : phi_is_exact(qy.p, qy.tr, phi)
    /\ qy.n < MaxQueries
    /\ qy' = Query(qy, "correlate_phi", <<bin_edges, t>>, correlate_phi(qy.p, qy.tr, bin_edges, t, <<0, length(qy.p)>>))
    /\ UNCHANGED <<hvars, il, px, ev>>

NextQuery ==
    \/ \E t_low, t_high \in WindowEnds : Extent(t_low, t_high)
    \/ Tb
    \/ Ts
    \/ \E val \in QueryValues, bin_edges \in QueryEdges : GetBin(val, bin_edges)
    \/ \E t_edges \in TimeEdges : PointCalls(t_edges)
    \/ \E bin_edges \in RadiusEdges, t \in RadiusExtents, pos \in BOOLEAN : CorrelateR(bin_edges, t, pos)
    \/ \E bin_edges \in ThetaEdges, t \in ThetaExtents : CorrelateTheta(bin_edges, t)
    \/ \E bin_edges \in PhiEdges, t \in PhiExtents : CorrelatePhi(bin_edges, t)
    \/ \E gcd \in GcdFiles \cup {NoGcd, "notes.txt"}, photons_gcd \in GcdFiles \cup {NoGcd} : GenerateHistos(gcd, photons_gcd)

SpecQuery == InitQuery /\ [][NextQuery]_vars

----------------------------------------------------------------------------
(* Properties of the methods called on their own *)

\* the times of the closed interval [lo, hi]; it is empty when lo > hi
Interval(lo, hi) == lo..hi

\* C15: Track.extent(t_low, t_high) with t_low <= t_high returns None exactly
\* when the window [t_low, t_high] and the track's interval [t0, t0 + dt]
\* have no time in common; otherwise it returns the pair
\* (max(t_low, t0), min(t_high, t0 + dt)), whose first element is at most its
\* second and which lies inside both intervals.
ExtentIsOverlap ==
    qy.pc = "extent" =>
        LET t_low == qy.args[1]
            t_high == qy.args[2]
            t0 == qy.tr.t0
            t1 == qy.tr.t0 + dt(qy.p)
            common == Interval(t_low, t_high) \cap Interval(t0, t1)
        IN  /\ (qy.result = <<>>) <=> (common = {})
            /\ qy.result # <<>> =>
                  /\ qy.result = <<Max2(t_low, t0), Min2(t_high, t1)>>
                  /\ qy.result[1] <= qy.result[2]
                  /\ Interval(qy.result[1], qy.result[2]) = common

\* an overlap of a single instant: the window begins when the track ends
ExtentIsOverlapWitness ==
    /\ qy.pc = "extent"
    /\ qy.args[1] = qy.tr.t0 + dt(qy.p)
    /\ qy.args[1] < qy.args[2]
    /\ qy.result = <<qy.args[1], qy.args[1]>>

\* 25 times the components of the unit direction (dx, dy, dz)
direction25(p) == <<sintheta(p) * cosphi(p), sintheta(p) * sinphi(p), 5 * costheta(p)>>

\* C19: Track.tb is t0 - (x0*dx + y0*dy + z0*dz) / c, the time at which the
\* track's line is closest to the origin, for every start time t0 and every
\* start position.
ClosestApproach ==
    qy.pc = "tb" =>
        25 * qy.result =
            25 * qy.tr.t0
            - NS_PER_M * (qy.tr.x0 * direction25(qy.p)[1]
                          + qy.tr.y0 * direction25(qy.p)[2]
                          + qy.tr.z0 * direction25(qy.p)[3])

\* the track's line passes through the origin: the start point is a multiple
\* of the direction (their cross product is zero)
ThroughOrigin(p, tr) ==
    LET d == direction25(p)
    IN  /\ tr.y0 * d[3] = tr.z0 * d[2]
        /\ tr.z0 * d[1] = tr.x0 * d[3]
        /\ tr.x0 * d[2] = tr.y0 * d[1]

\* C20: Track.ts returns t0 whenever the track's line passes through the
\* origin, at its start point or at any other point, or the track is
\* vertical (zenith 0 or pi); it then divides by no zero.
DegenerateTs ==
    (/\ qy.pc = "ts"
     /\ ThroughOrigin(qy.p, qy.tr) \/ qy.p.zenith \in {0, PI}) =>
        qy.result = Fin(qy.tr.t0)

\* C17: Hypo.get_bin(val, bin_edges), for strictly increasing edges, returns
\* the one index k with bin_edges[k] <= val < bin_edges[k+1] when there is
\* one, and returns None (here -1) if and only if val is outside
\* [bin_edges[0], bin_edges[-1]].
BinOfValue ==
    qy.pc = "get_bin" =>
        LET val == qy.args[1]
            bin_edges == qy.args[2]
            n == Len(bin_edges)
        IN  /\ \A k \in 0..(n - 2) :
                  (bin_edges[k + 1] <= val /\ val < bin_edges[k + 2]) => qy.result = k
            /\ (qy.result = -1) <=> (val < bin_edges[1] \/ val > bin_edges[n])

\* C18: GCD resolution in generate_histos: a gcd from the caller that does
\* not match the GCD the photons data records raises ValueError; no gcd from
\* the caller and none in the data raises ValueError; when only the data
\* records one, that one is used; when both are there and match, the
\* caller's is used.
GcdResolution ==
    (qy.pc = "generate_histos" /\ qy.args[1] \in GcdFiles \cup {NoGcd}) =>
        LET gcd == qy.args[1]
            photons_gcd == qy.args[2]
        IN  /\ (gcd # NoGcd /\ photons_gcd # NoGcd /\ GcdInfo(gcd) # GcdInfo(photons_gcd))
                   => qy.result.err = "ValueError"
            /\ (gcd = NoGcd /\ photons_gcd = NoGcd) => qy.result.err = "ValueError"
            /\ (gcd = NoGcd /\ photons_gcd # NoGcd)
                   => (qy.result.err = "" /\ qy.result.gcd_info = GcdInfo(photons_gcd))
            /\ (gcd # NoGcd /\ photons_gcd # NoGcd /\ GcdInfo(gcd) = GcdInfo(photons_gcd))
                   => (qy.result.err = "" /\ qy.result.gcd_info = GcdInfo(gcd))

\* C16: every call to Track.point that Hypo.compute_matrices makes has a time
\* t with t0 <= t <= t0 + dt, so the assertion in point never fails, whatever
\* the track, the sensor coordinate and the time binning.
GuardedQueries ==
    qy.pc = "point_calls" =>
        \A t \in qy.result : point_ok(qy.p, qy.tr, t)

\* point is asked for the closest approach and for the smallest polar angle,
\* both strictly inside the track's span, and for the ends of a window that
\* the track overlaps in part
GuardedQueriesWitness ==
    /\ qy.pc = "point_calls"
    /\ has_r_inflection_point(qy.p, qy.tr)
    /\ qy.tr.t0 < tb(qy.p, qy.tr)
    /\ {tb(qy.p, qy.tr), qy.args[2], qy.tr.t0 + dt(qy.p)} \subseteq qy.result
    /\ qy.tr.t0 < qy.args[2] /\ qy.args[1] < qy.tr.t0
    /\ has_theta_inflection_point(qy.p, qy.tr)
    /\ qy.tr.t0 < ts(qy.p, qy.tr).v
    /\ ts(qy.p, qy.tr).v \in qy.result
    /\ Cardinality(qy.result) >= 4

\* C14: correlate_r, correlate_theta and correlate_phi each return one
\* interval per bin, len(bin_edges) - 1 of them in the order of the bins, and
\* every one is the sentinel pair [-1, -1] or a pair with
\* interval[0] <= interval[1].
CorrelatorShape ==
    qy.pc \in {"correlate_r", "correlate_theta", "correlate_phi"} =>
        /\ DOMAIN qy.result = 1..(Len(qy.args[1]) - 1)
        /\ \A i \in DOMAIN qy.result :
              \/ qy.result[i] = Sentinel
              \/ XLe(qy.result[i][1], qy.result[i][2])

----------------------------------------------------------------------------
(* Properties of compute_matrices: the extremum split and the cascade *)

\* the time bins of the last call that the track overlaps, as their extents
Windows ==
    LET tr == SeenFrom(hypo.params, LastCall)
        t == hypo.bin_edges.t
    IN  {extent(hypo.params, tr, t[k], t[k + 1]) : k \in 1..(Len(t) - 1)} \ {<<>>}

\* C21: whenever compute_matrices takes the "extremum inside the window"
\* branch for the radius or for the polar angle, the inflection value it reads
\* was computed earlier in the same call, for every track and time binning.
ExtremumDefined ==
    calls # <<>> =>
        LET p == hypo.params
            tr == SeenFrom(hypo.params, LastCall)
        IN  /\ out.err # "UnboundLocalError"
            /\ \A w \in Windows :
                 /\ (~(tb(p, tr) <= w[1]) /\ ~(tb(p, tr) > w[2]))
                       => has_r_inflection_point(p, tr)
                 /\ (~XLe(ts(p, tr), Fin(w[1])) /\ ~XLe(Fin(w[2]), ts(p, tr)))
                       => has_theta_inflection_point(p, tr)

\* the radius intervals that compute_matrices gets for the window w: the
\* entries of r_inter_neg and r_inter_pos that are not the sentinel, each
\* with its branch and its bin
RadiusIntervals(p, e, tr, w) ==
    LET x == r_extents(p, tr, w, point(p, tr, w[1]), point(p, tr, w[2]), tb(p, tr))
        neg == correlate_r(p, tr, e.r, x.neg, FALSE)
        pos == correlate_r(p, tr, e.r, x.pos, TRUE)
    IN  {<<"neg", i, neg[i]>> : i \in {j \in DOMAIN neg : neg[j] # Sentinel}}
        \cup {<<"pos", i, pos[i]>> : i \in {j \in DOMAIN pos : pos[j] # Sentinel}}

\* the intervals of ivs that hold the metre of track from rho = m to m + 1
Holding(ivs, m) == {iv \in ivs : XLe(iv[3][1], Fin(m)) /\ XLe(Fin(m + 1), iv[3][2])}

\* the radius bins cover the radii of both ends of the track
RadiusCovered(p, e, tr) ==
    /\ e.r[1] = 0
    /\ cr(point(p, tr, tr.t0)) <= e.r[Len(e.r)]
    /\ cr(point(p, tr, tr.t0 + dt(p))) <= e.r[Len(e.r)]

\* C22: in every time window the radius intervals of the branch before the
\* closest approach (the root -A - r0.d) end at or before its rho, those of
\* the branch after it (+A - r0.d) start at or after it, and, when the radius
\* bins cover the excursion, every metre of the window's rho extent lies in
\* exactly one radius interval of the two branches together.
RadiusBranches ==
    (calls # <<>> /\ out.err = "") =>
        LET p == hypo.params
            e == hypo.bin_edges
            tr == SeenFrom(hypo.params, LastCall)
        IN  \A w \in Windows :
              \E ivs \in {RadiusIntervals(p, e, tr, w)} :
                /\ \A iv \in ivs :
                     iv[3][1] # iv[3][2] =>
                        IF iv[1] = "pos"
                        THEN XLe(iv[3][2], Fin(Quot(- proj25(p, tr), 25)))
                        ELSE XLe(Fin(Quot(- proj25(p, tr), 25)), iv[3][1])
                /\ RadiusCovered(p, e, tr) =>
                     \A m \in rho_of_t(p, tr, w[1])..(rho_of_t(p, tr, w[2]) - 1) :
                        Cardinality(Holding(ivs, m)) = 1


\* the azimuth extent compute_matrices passes to correlate_phi for a time
\* window that holds the whole track
WholeTrackPhiExtent(p, tr) ==
    phi_extent(sorted(cphi(point(p, tr, tr.t0)), cphi(point(p, tr, tr.t0 + dt(p)))))

\* correlate_phi was called with the azimuth extent of a track that crosses
\* azimuth 0, passed as (larger, smaller)
WrappedCall ==
    /\ qy.pc = "correlate_phi"
    /\ <<qy.p.x, qy.p.y, qy.p.z>> \in WrapStartPoints
    /\ qy.args[2] = WholeTrackPhiExtent(qy.p, qy.tr)
    /\ qy.args[2][2] < qy.args[2][1]

\* C23: when the azimuths of the two ends of a window are more than pi apart,
\* correlate_phi gets them as (larger, smaller), gives an interval that is
\* not the sentinel to exactly the bins that overlap [larger, 2 pi) or
\* [0, smaller], and the intervals of all bins together cover the window's
\* rho extent, for every binning of [0, 2 pi), one single bin included.
AzimuthWrap ==
    WrappedCall =>
        LET b == qy.args[1]
            t == qy.args[2]
            res == qy.result
        IN  /\ \A i \in DOMAIN res :
                 (res[i] # Sentinel) <=> (b[i + 1] >= t[1] \/ b[i] <= t[2])
            /\ \A m \in 0..(length(qy.p) - 1) :
                 \E i \in DOMAIN res :
                    /\ res[i] # Sentinel
                    /\ XLe(res[i][1], Fin(m)) /\ XLe(Fin(m + 1), res[i][2])

\* C24: when the two polar angles passed to correlate_theta are equal and lie
\* within the polar binning, exactly one bin gets the whole rho extent and
\* every other bin gets the sentinel, for every value of the angle.
ConstantTheta ==
    (/\ qy.pc = "correlate_theta"
     /\ qy.args[2][1] = qy.args[2][2]
     /\ qy.args[1][1] <= qy.args[2][1]
     /\ qy.args[2][1] <= qy.args[1][Len(qy.args[1])]) =>
        LET res == qy.result
            whole == {i \in DOMAIN res : res[i] = <<Fin(0), Fin(length(qy.p))>>}
        IN  /\ Cardinality(whole) = 1
            /\ \A i \in (DOMAIN res) \ whole : res[i] = Sentinel

\* what the loop over the time bins of the last call left: the error it
\* raised and the counts of the track alone
TrackOnly == time_loop(hypo.params, hypo.bin_edges, SeenFrom(hypo.params, LastCall), 0, EmptySparse)

\* the cell of the cascade in the last call, and whether get_bin found a bin
\* for it on all four axes
CascadeCell == cascade_cell(hypo.bin_edges, SeenFrom(hypo.params, LastCall))
CascadeInBinning == \A n \in 1..4 : CascadeCell[n] # -1

\* C25: once the loop over the time bins is done, a cascade whose point falls
\* in a bin on all four axes makes that cell's count the track's count plus
\* cascade_photons and its directional length
\* (1.0 * count_track + 0.5 * cascade_photons) / (count_track + cascade_photons),
\* here the fraction with numerator 2 * count_track + cascade_photons,
\* for every cascade energy >= 0 and whether or not the track populated the
\* cell, and changes no other cell; a cascade outside the binning on any axis
\* adds nothing; neither case raises an error.
CascadeContribution ==
    (calls # <<>> /\ TrackOnly.err = "") =>
        LET z == TrackOnly.z
            c == CascadeCell
            w1 == SparseGet(z, c)
            w2 == cascade_photons(hypo.params)
            counts == out.self.photon_counts
            len == out.self.photon_corr_len
        IN  /\ out.status = "ok"
            /\ IF CascadeInBinning
               THEN /\ SparseGet(counts, c) = w1 + w2
                    /\ c \in DOMAIN len
                    /\ len[c] = <<2 * w1 + w2, 2 * (w1 + w2)>>
                    /\ \A d \in ((DOMAIN z) \cup (DOMAIN counts)) \ {c} :
                          SparseGet(counts, d) = SparseGet(z, d)
               ELSE counts = z

\* the cells of the last call's matrices that hold photons
Populated == {d \in DOMAIN out.self.photon_counts : out.self.photon_counts[d] > 0}

\* C26: after compute_matrices every populated cell has photon_corr_theta
\* equal to the track's zenith and photon_corr_phi equal to
\* |phi_center - azimuth| folded into [0, pi] (here: twice that value), every
\* cell populated by the track alone has photon_corr_len 1.0, and every
\* populated cell has photon_corr_len in [0, 1].
DirectionalStatistics ==
    (calls # <<>> /\ out.status = "ok" /\ out.err = "") =>
        \A d \in Populated :
            /\ SparseGet(out.self.photon_corr_theta, d) = hypo.params.zenith
            /\ SparseGet(out.self.photon_corr_phi, d)
                  = delta_phi2(hypo.params, hypo.bin_edges, d)
            /\ d \in DOMAIN out.self.photon_corr_len
            /\ 0 <= out.self.photon_corr_len[d][1]
            /\ out.self.photon_corr_len[d][1] <= out.self.photon_corr_len[d][2]
            /\ (d # CascadeCell \/ ~CascadeInBinning)
                  => out.self.photon_corr_len[d] = <<1, 1>>

\* the intervals of positive length that the five correlator calls of
\* compute_matrices return for the window w
CorrelatorIntervals(p, e, tr, w) ==
    LET ext0 == point(p, tr, w[1])
        ext1 == point(p, tr, w[2])
        rho_extent == <<rho_of_t(p, tr, w[1]), rho_of_t(p, tr, w[2])>>
        th == theta_extents(p, tr, w, ext0, ext1, ts(p, tr))
        arrays ==
            <<correlate_phi(p, tr, e.phi, phi_extent(sorted(cphi(ext0), cphi(ext1))),
                            rho_extent),
              correlate_theta(p, tr, e.theta, th.neg, rho_extent),
              correlate_theta(p, tr, e.theta, th.pos, rho_extent)>>
    IN  {iv[3] : iv \in RadiusIntervals(p, e, tr, w)}
        \cup UNION {{arrays[n][i] : i \in DOMAIN arrays[n]} : n \in 1..3}

\* C27: every interval of positive length that a correlator returns within
\* compute_matrices lies inside the window's rho extent, which lies inside
\* [0, length], so it never has both endpoints negative and inner_loop skips
\* only what a correlator returned for no overlap.
SentinelUnambiguous ==
    (calls # <<>> /\ out.err = "") =>
        LET p == hypo.params
            tr == SeenFrom(hypo.params, LastCall)
        IN  \A w \in Windows :
              /\ 0 <= rho_of_t(p, tr, w[1])
              /\ rho_of_t(p, tr, w[2]) <= length(p)
              /\ \A iv \in CorrelatorIntervals(p, hypo.bin_edges, tr, w) :
                    (iv # Sentinel /\ iv[1] # iv[2]) =>
                       /\ XLe(Fin(rho_of_t(p, tr, w[1])), iv[1])
                       /\ XLe(iv[2], Fin(rho_of_t(p, tr, w[2])))
                       /\ ~is_skipped(iv)

----------------------------------------------------------------------------
(* pexp_5d: the bin indices of one source and one hit, computed on their own.
   Here the source may sit on the sensor or straight above it. *)

\* what "dz/r" with r = 0 leads to: in plain Python the quotient of the two
\* numpy scalars is nan and int(nan) raises ValueError; compiled code raises
\* ZeroDivisionError or, with numba's numpy error model, converts the nan
\* to an integer that is not specified
StrayIndices == {-1, 0, n_costheta_bins}
DivisionByZeroOutcomes(jit) ==
    IF ~jit THEN {[err |-> "ValueError: cannot convert float NaN to integer", ct |-> 0]}
    ELSE {[err |-> "ZeroDivisionError", ct |-> 0]} \cup {[err |-> "", ct |-> i] : i \in StrayIndices}

\* the statements of the loop over the sources up to costheta_bin_idx, for
\* one source: skipped beyond the table radius, else the two space indices
space_indices(jit, geo) ==
    IF outside(geo.rsquared) THEN {[status |-> "skipped", err |-> "", r |-> 0, ct |-> 0]}
    ELSE IF geo.rsquared = 0
    THEN {[status |-> IF o.err = "" THEN "indexed" ELSE "raised", err |-> o.err,
           r |-> r_bin_idx(geo.rsquared), ct |-> o.ct] : o \in DivisionByZeroOutcomes(jit)}
    ELSE {[status |-> "indexed", err |-> "",
           r |-> r_bin_idx(geo.rsquared), ct |-> costheta_bin_idx(geo.dz, geo.rsquared)]}

\* the statements of the loop over the hits up to t_bin_idx, for one hit:
\* -1 stands for a hit that is skipped
t_bin_idx(source_t, hit_time) ==
    IF ~not_later(source_t, hit_time) THEN -1
    ELSE IF hit_time.v - source_t >= t_max THEN -1
    ELSE int(hit_time.v - source_t, table_dt)

\* sources around a sensor at the origin: on the sensor, straight above and
\* below it, beside it, at and beyond the table radius
IndexPositions ==
    {<<0, 0, 0>>, <<0, 0, 3>>, <<0, 0, 9>>, <<0, 0, -3>>, <<-3, -4, 0>>,
     <<3, 0, 4>>, <<1, 0, -1>>, <<0, 0, -10>>, <<0, 6, -9>>}
IndexSourceTimes == {0, 2}
IndexHitTimes == {Fin(0), Fin(5), Fin(9), NaN}
IndexDom == [operational |-> TRUE, x |-> 0, y |-> 0, z |-> 0, quantum_efficiency2 |-> 2, noise_rate_per_ns |-> 1]

InitIndex ==
    /\ hypo = Idle /\ track = Idle /\ out = Idle /\ first = Idle /\ calls = Idle
    /\ il = Idle /\ ev = Idle /\ qy = Idle
    /\ \E jit \in BOOLEAN, pos \in IndexPositions, t \in IndexSourceTimes,
          hit_time \in IndexHitTimes :
          px = [pc |-> "index_args", jit |-> jit,
                source |-> Source(SRC_OMNI, t, pos[1], pos[2], pos[3], 1, 0, 5, 0),
                hit_time |-> hit_time, dom_info |-> IndexDom,
                result |-> [status |-> "", err |-> "", r |-> 0, ct |-> 0], t_bin_idx |-> -1]

\* one pass of the loop over the sources with one hit, up to the lookups
SourceIndices ==
    /\ px.pc = "index_args"
    /\ \E res \in space_indices(px.jit, Geometry(px.dom_info, px.source)) :
          px' = [px EXCEPT !.pc = "indexed", !.result = res,
                           !.t_bin_idx = IF res.status = "indexed"
                                         THEN t_bin_idx(px.source.t, px.hit_time)
                                         ELSE -1]
    /\ UNCHANGED <<hvars, il, ev, qy>>

NextIndex == SourceIndices

SpecIndex == InitIndex /\ [][NextIndex]_vars

\* C28: for every source with rsquared below rsquared_max the radial index
\* lies in [0, n_r_bins) and the polar index in [0, n_costheta_bins), for
\* every hit that passes the causality test and the time-range test the
\* time index lies in [0, n_t_bins), and nothing is divided by zero; this
\* for a source on the sensor and for a source straight above or below it too.
TableIndicesInRange ==
    (px.pc = "indexed" /\ ~outside(Geometry(px.dom_info, px.source).rsquared)) =>
        /\ Geometry(px.dom_info, px.source).rsquared # 0
        /\ px.result.status = "indexed"
        /\ px.result.r \in 0..(n_r_bins - 1)
        /\ px.result.ct \in 0..(n_costheta_bins - 1)
        /\ (not_later(px.source.t, px.hit_time) /\ px.hit_time.v - px.source.t < t_max)
              => px.t_bin_idx \in 0..(n_t_bins - 1)

\* the Cherenkov sources of the call that reach a per-hit lookup: inside the
\* table radius, with a hit they count for
CkvHitLookups ==
    {n \in DOMAIN px.sources :
        /\ px.sources[n].kind = SRC_CKV_BETA1 /\ Inside(px.sources[n])
        /\ \E i \in DOMAIN px.hits : Counts(px.sources[n], px.hits[i].time)}

\* C29: the two direction indices that the per-hit lookup of a Cherenkov
\* source is given were computed from that source, in the same pass of the
\* loop over the sources, for every table kind the generator accepts and for
\* every order of the sources; the lookup never reads an index that no
\* statement has assigned.
DirectionIndicesCurrent ==
    (Done /\ Operational) =>
        /\ \A n \in CkvHitLookups :
              /\ IndicesOf(px.sources[n]).cd = costhetadir_bin_idx(px.sources[n].dir_costheta5)
              /\ IndicesOf(px.sources[n]).dp = deltaphidir_bin_idx(CosDeltaPhi(px.sources[n]))
        /\ px.result.err \notin {"UnboundLocalError", "NotDefinedError"}

\* C30: pexp_5d raises "source kind not implemented" only for a source that
\* is neither isotropic nor a Cherenkov cone; a source of either kind inside
\* the table radius is processed without that error under every generation
\* option, compute_t_indep_exp = False included.
SourceKindsAccepted ==
    (Done /\ Operational /\ px.result.err = "NotImplementedError") =>
        \E n \in DOMAIN px.sources :
            px.sources[n].kind \notin {SRC_OMNI, SRC_CKV_BETA1}

====
